---------------------------- MODULE Spec2Model ----------------------------
(***************************************************************************)
(* A model of the fetch layer of xlytics:                                  *)
(*   - the retry combinators of services/utils/decorators.py,              *)
(*   - the media fetchers of services/utils/file_utils.py,                 *)
(*   - the search orchestrator of services/twitter.py                      *)
(*     (fetch_tweets_by_search_async and process_tweet_async) with the     *)
(*     media-item builder of services/helpers.py.                          *)
(*                                                                         *)
(* Three specifications share the variables:                               *)
(*   SpecRetry     the two retry wrappers around an arbitrary operation,   *)
(*   SpecDownload  a sequence of calls of download_media and               *)
(*                 download_media_async,                                   *)
(*   Spec          one top-level call of fetch_tweets_by_search_async,     *)
(*                 the wrapper of its decorator included.                  *)
(***************************************************************************)
EXTENDS Integers, Sequences, FiniteSets, TLC

VARIABLES
    \* ---- the retry wrapper (decorators.py) ----
    style,          \* "sync": retry_on_exception, "async": retry_on_exception_async
    max_retries,    \* decorator parameter
    delay,          \* decorator parameter
    backoff,        \* decorator parameter
    exceptions,     \* decorator parameter: the set of error classes caught
    wpc,            \* position of the wrapper: "loop", "call", "sleep", "done"
    attempt,        \* loop variable of `for attempt in range(max_retries)`
    current_delay,  \* local variable of the wrapper
    execs,          \* the outcomes of the executions of the wrapped function, in order
    sleeps,         \* the sleeps requested so far: <<[fn, secs]>>
    outcome,        \* what the wrapper gave its caller
    \* ---- the wrapped function of Spec: fetch_tweets_by_search_async ----
    num_posts,      \* argument of the call
    fpc,            \* position of the body: "idle", "start", "gather"
    requests,       \* the search requests issued to the social API: <<[max_results, attempt]>>
    tweets,         \* res.data of the attempt in progress
    media_lookup,   \* media_key -> media object, built from res.includes
    user_lookup,    \* author id -> user object, built from res.includes
    ttask,          \* the per-record tasks: position i -> [pc, result]
    mtask,          \* the per-media tasks: <<i, j>> -> [pc, item]
    \* ---- the media fetchers (file_utils.py) ----
    root,           \* the `output` argument the callers pass (None: the default)
    dl,             \* the calls of download_media / download_media_async: id -> call
    fs,             \* the files written: path -> the chunks it holds
    log,            \* the error records written to the logger
    \* ---- the event loop the coroutines run on ----
    now,            \* the clock, in seconds
    timer,          \* the timer of the last asyncio.sleep: [set_at, due, ran]
    \* ---- the collaborators of the fetch layer ----
    llm,            \* a LocalLLM under construction and in use (local_lang.py)
    meta,           \* a batch saved by save_metadata and reloaded by load_tweet_data
    norm,           \* a call of one of the convert_* functions (helpers.py)
    twin,           \* one download made by both fetchers, one after the other
    lg,             \* the Logger class and the instances handed out (logger.py)
    byurl,          \* a call of fetch_tweet_by_url_async (twitter.py)
    vision          \* a video under VisionPipeline._analyze_video (pipeline.py)

retry_vars == <<style, max_retries, delay, backoff, exceptions, wpc, attempt,
                current_delay, execs, sleeps, outcome>>
search_vars == <<num_posts, fpc, requests, tweets, media_lookup, user_lookup>>
task_vars == <<ttask, mtask>>
dl_vars == <<root, dl, fs, log>>
rest_vars == <<search_vars, task_vars, dl_vars>>
loop_vars == <<now, timer>>
more_vars == <<twin, lg, byurl, vision>>
app_vars == <<llm, meta, norm, more_vars>>
vars == <<retry_vars, rest_vars, loop_vars, app_vars>>

(***************************************************************************)
(* Bounds of the model.                                                    *)
(***************************************************************************)
MaxRetriesBound == 3    \* max_retries is drawn from 0..MaxRetriesBound in SpecRetry
MaxTweets == 2          \* length of a search batch
MaxChunks == 1          \* chunks of a media body
MaxCalls == 2           \* calls of a media fetcher in SpecDownload
MaxLoggers == 3         \* Logger() constructions in SpecLogger
MaxRecords == 2         \* records of a stored batch
MaxMedia == 2           \* media objects of the tweet fetched by URL
MaxTotalFrames == 7     \* frames of a video
MaxMaxFrames == 4       \* max_frames of a VisionPipeline
MaxKeys == 2            \* media keys of a search batch, all records together

(***************************************************************************)
(* Values.  None is Python's None.                                         *)
(***************************************************************************)
None == "None"
NoErr == [kind |-> "none", id |-> 0]

\* The error classes that occur; all derive from Exception.
ErrorKinds == {"PyTwitterError", "AssertionError", "ConnectionError", "AttributeError"}

\* `except exceptions as e`: e is caught when its class is, or derives from,
\* a member of the tuple.
IsSubclass(kind, cls) == cls = kind \/ (cls = "Exception" /\ kind \in ErrorKinds)

Matches(e, excs) == \E cls \in excs : IsSubclass(e.kind, cls)

Pending == [status |-> "pending", value |-> None, err |-> NoErr]
Returned(v) == [status |-> "returned", value |-> v, err |-> NoErr]
Raised(e) == [status |-> "raised", value |-> None, err |-> e]


Last(s) == s[Len(s)]

RECURSIVE Pow(_, _)
Pow(b, n) == IF n = 0 THEN 1 ELSE b * Pow(b, n - 1)

(***************************************************************************)
(* The retry wrappers: decorators.py.                                      *)
(*                                                                         *)
(* execs holds one entry per execution of the wrapped function: Pending    *)
(* while it runs, then what it returned or raised.  The error raised by    *)
(* execution k carries id k, so that "the error of the last attempt" can   *)
(* be told from the error of an earlier one.                               *)
(***************************************************************************)
Delays == {1, 60}
Backoffs == {1, 2, 3}
ExceptionTuples == {{"Exception"}, {"PyTwitterError"}}
OpValues == {"value", None}
OpErrors == {"PyTwitterError", "ConnectionError"}

\* The outcome of the execution in progress, as the wrapper sees it.
fres == Last(execs)

SetRes(r) == execs' = [execs EXCEPT ![Len(execs)] = r]

\* A loop that runs its body once before it looks at max_retries.
InRangeAtLeastOnce(att) == att < max_retries \/ att = 0

\* `for attempt in range(max_retries)`: the body runs while attempt < max_retries.
InRange(att) == att < max_retries

\* A handler that also waits after the last attempt.
HasAttemptLeftOffByOne(att) == att < max_retries

\* `if attempt < max_retries - 1`: there is an attempt left.
HasAttemptLeft(att) == att < max_retries - 1

\* A wrapper whose delay grows by addition instead of multiplication.
NextDelayAdditive(d) == d + backoff

\* A wrapper that waits the same time before every retry.
NextDelayFixed(d) == d

\* `current_delay *= backoff`
NextDelay(d) == d * backoff

\* A handler written `except Exception`: it catches every error class.
CaughtAny(e) == TRUE

\* `except exceptions as e`
Caught(e) == Matches(e, exceptions)

\* A handler that raises an error of its own in place of the caught one.
ReraiseMasked(e) == Raised([e EXCEPT !.kind = "RetryError"])

\* What `raise` in the handler gives the caller: the caught error itself.
Reraise(e) == Raised(e)

\* A wait that keeps the thread whatever the call.
SleepHoldsAlways(fn, d) == d

\* The seconds for which a wait keeps the thread of the event loop:
\* time.sleep(d) all of them, `await asyncio.sleep(d)` none, as it hands the
\* thread back to the loop and leaves a timer.
SleepHolds(fn, d) == IF fn = "time.sleep" THEN d ELSE 0

\* try: return func(...)  /  return await func(...)
wrapper_try ==
    /\ wpc = "loop"
    /\ InRange(attempt)
    /\ wpc' = "call"
    /\ execs' = Append(execs, Pending)
    /\ UNCHANGED <<style, max_retries, delay, backoff, exceptions, attempt,
                   current_delay, sleeps, outcome>>
    /\ UNCHANGED rest_vars
    /\ UNCHANGED loop_vars
    /\ UNCHANGED app_vars

\* the loop ends without return or raise: `return None`
wrapper_return_none ==
    /\ wpc = "loop"
    /\ ~InRange(attempt)
    /\ wpc' = "done"
    /\ outcome' = Returned(None)
    /\ UNCHANGED <<style, max_retries, delay, backoff, exceptions, attempt,
                   current_delay, execs, sleeps>>
    /\ UNCHANGED rest_vars
    /\ UNCHANGED loop_vars
    /\ UNCHANGED app_vars

\* the wrapped function returned: the wrapper returns its value
wrapper_return ==
    /\ wpc = "call"
    /\ fres.status = "returned"
    /\ wpc' = "done"
    /\ outcome' = Returned(fres.value)
    /\ UNCHANGED <<style, max_retries, delay, backoff, exceptions, attempt,
                   current_delay, execs, sleeps>>
    /\ UNCHANGED rest_vars
    /\ UNCHANGED loop_vars
    /\ UNCHANGED app_vars

\* the wrapped function raised an error that `except exceptions` does not catch
wrapper_propagate ==
    /\ wpc = "call"
    /\ fres.status = "raised"
    /\ ~Caught(fres.err)
    /\ wpc' = "done"
    /\ outcome' = Raised(fres.err)
    /\ UNCHANGED <<style, max_retries, delay, backoff, exceptions, attempt,
                   current_delay, execs, sleeps>>
    /\ UNCHANGED rest_vars
    /\ UNCHANGED loop_vars
    /\ UNCHANGED app_vars

\* the handler, last attempt: log and `raise`
wrapper_raise ==
    /\ wpc = "call"
    /\ fres.status = "raised"
    /\ Caught(fres.err)
    /\ ~HasAttemptLeft(attempt)
    /\ wpc' = "done"
    /\ outcome' = Reraise(fres.err)
    /\ UNCHANGED <<style, max_retries, delay, backoff, exceptions, attempt,
                   current_delay, execs, sleeps>>
    /\ UNCHANGED rest_vars
    /\ UNCHANGED loop_vars
    /\ UNCHANGED app_vars

\* retry_on_exception, the handler with an attempt left: time.sleep blocks the
\* thread, then current_delay *= backoff and the loop goes on.
retry_on_exception_sleep ==
    /\ style = "sync"
    /\ wpc = "call"
    /\ fres.status = "raised"
    /\ Caught(fres.err)
    /\ HasAttemptLeft(attempt)
    /\ sleeps' = Append(sleeps, [fn |-> "time.sleep", secs |-> current_delay])
    /\ current_delay' = NextDelay(current_delay)
    /\ attempt' = attempt + 1
    /\ wpc' = "loop"
    /\ now' = now + SleepHolds("time.sleep", current_delay)
    /\ UNCHANGED <<style, max_retries, delay, backoff, exceptions, execs, outcome>>
    /\ UNCHANGED <<rest_vars, timer>>
    /\ UNCHANGED app_vars

\* retry_on_exception_async, the handler with an attempt left:
\* `await asyncio.sleep(current_delay)` suspends the task.
retry_on_exception_async_sleep ==
    /\ style = "async"
    /\ wpc = "call"
    /\ fres.status = "raised"
    /\ Caught(fres.err)
    /\ HasAttemptLeft(attempt)
    /\ sleeps' = Append(sleeps, [fn |-> "asyncio.sleep", secs |-> current_delay])
    /\ wpc' = "sleep"
    /\ now' = now + SleepHolds("asyncio.sleep", current_delay)
    /\ timer' = [set_at |-> now', due |-> now' + current_delay, ran |-> 0]
    /\ UNCHANGED <<style, max_retries, delay, backoff, exceptions, attempt,
                   current_delay, execs, outcome>>
    /\ UNCHANGED rest_vars
    /\ UNCHANGED app_vars

\* the sleep is over: the loop runs the timer's callback once the clock has
\* reached its deadline, waiting for it when nothing else is ready; then
\* current_delay *= backoff and the loop goes on.
retry_on_exception_async_resume ==
    /\ style = "async"
    /\ wpc = "sleep"
    /\ now' = (IF now < timer.due THEN timer.due ELSE now)
    /\ UNCHANGED timer
    /\ current_delay' = NextDelay(current_delay)
    /\ attempt' = attempt + 1
    /\ wpc' = "loop"
    /\ UNCHANGED <<style, max_retries, delay, backoff, exceptions, execs, sleeps,
                   outcome>>
    /\ UNCHANGED rest_vars
    /\ UNCHANGED app_vars

(***************************************************************************)
(* SpecRetry: the wrappers around an arbitrary operation, which at each    *)
(* execution returns a value or raises an error of some class.             *)
(***************************************************************************)
op_return ==
    /\ wpc = "call"
    /\ fres.status = "pending"
    /\ \E v \in OpValues : SetRes(Returned(v))
    /\ UNCHANGED <<style, max_retries, delay, backoff, exceptions, wpc, attempt,
                   current_delay, sleeps, outcome>>
    /\ UNCHANGED rest_vars
    /\ UNCHANGED loop_vars
    /\ UNCHANGED app_vars

op_raise ==
    /\ wpc = "call"
    /\ fres.status = "pending"
    /\ \E k \in OpErrors : SetRes(Raised([kind |-> k, id |-> Len(execs)]))
    /\ UNCHANGED <<style, max_retries, delay, backoff, exceptions, wpc, attempt,
                   current_delay, sleeps, outcome>>
    /\ UNCHANGED rest_vars
    /\ UNCHANGED loop_vars
    /\ UNCHANGED app_vars

\* The wrapper is entered: `current_delay = delay`, the loop starts at attempt 0.
WrapperEntered(st, mr, d, b, excs) ==
    /\ style = st
    /\ max_retries = mr
    /\ delay = d
    /\ backoff = b
    /\ exceptions = excs
    /\ wpc = "loop"
    /\ attempt = 0
    /\ current_delay = d
    /\ execs = <<>>
    /\ sleeps = <<>>
    /\ outcome = Pending

SearchIdle ==
    /\ num_posts = 0
    /\ fpc = "idle"
    /\ requests = <<>>
    /\ tweets = <<>>
    /\ media_lookup = <<>>
    /\ user_lookup = <<>>
    /\ ttask = <<>>
    /\ mtask = <<>>

DownloadIdle ==
    /\ root = <<>>
    /\ dl = <<>>
    /\ fs = <<>>
    /\ log = {}

NoTimer == [set_at |-> 0, due |-> 0, ran |-> 0]

\* The loop has just started.
LoopStarted ==
    /\ now = 0
    /\ timer = NoTimer

\* No language backend has been constructed and nothing has been saved.
NoLLM == [pc |-> "none", base_model |-> "",
          env |-> [groq_url |-> FALSE, ollama_url |-> FALSE],
          served |-> [groq |-> {}, ollama |-> {}],
          net |-> <<>>, groq_models |-> {}, ollama_models |-> {},
          platform |-> None, err |-> NoErr.kind]
NoMeta == [pc |-> "none"]
NoNorm == [pc |-> "none"]
NoTwin == [pc |-> "none"]
NoLogger == [pc |-> "none"]
NoByUrl == [pc |-> "none"]
NoVision == [pc |-> "none"]
MoreIdle ==
    /\ twin = NoTwin
    /\ lg = NoLogger
    /\ byurl = NoByUrl
    /\ vision = NoVision
AppIdle ==
    /\ llm = NoLLM
    /\ meta = NoMeta
    /\ norm = NoNorm
    /\ MoreIdle

InitRetry ==
    /\ \E st \in {"sync", "async"}, mr \in 0..MaxRetriesBound, d \in Delays,
          b \in Backoffs, excs \in ExceptionTuples :
            WrapperEntered(st, mr, d, b, excs)
    /\ SearchIdle
    /\ DownloadIdle
    /\ LoopStarted
    /\ AppIdle

NextRetry ==
    \/ wrapper_try
    \/ wrapper_return_none
    \/ wrapper_return
    \/ wrapper_propagate
    \/ wrapper_raise
    \/ retry_on_exception_sleep
    \/ retry_on_exception_async_sleep
    \/ retry_on_exception_async_resume
    \/ op_return
    \/ op_raise

SpecRetry == InitRetry /\ [][NextRetry]_vars


(***************************************************************************)
(* Claims about the retry wrappers, checked under SpecRetry.               *)
(***************************************************************************)
AllFailedCaught ==
    /\ Len(execs) = max_retries
    /\ \A k \in 1..Len(execs) : execs[k].status = "raised" /\ Matches(execs[k].err, exceptions)

\* C1: for max_retries >= 1 the wrapped operation is executed at most
\* max_retries times, the k-th wait follows the k-th failed execution and
\* lasts delay * backoff^(k-1), and when all max_retries executions fail with
\* a caught error the caller gets the error of the last execution.
C1_RetryContract ==
    max_retries >= 1 =>
        /\ Len(execs) <= max_retries
        /\ \A k \in 1..Len(sleeps) :
              /\ sleeps[k].secs = delay * Pow(backoff, k - 1)
              /\ k <= Len(execs)
              /\ execs[k].status = "raised"
        /\ (wpc = "done" /\ AllFailedCaught)
              => outcome = Raised(execs[max_retries].err)

C1_Witness ==
    /\ wpc = "done"
    /\ max_retries = 3 /\ delay = 60 /\ backoff = 2
    /\ AllFailedCaught
    /\ Len(sleeps) = 2 /\ sleeps[2].secs = 120
    /\ outcome.status = "raised" /\ outcome.err.id = 3

NotCaughtAt(k) == execs[k].status = "raised" /\ ~Matches(execs[k].err, exceptions)

\* C2 as stated: whenever the wrapped operation fails with an error class
\* outside `exceptions`, exactly one attempt was made and nothing was waited.
C2_ExactlyOneAttempt ==
    \A k \in 1..Len(execs) : NotCaughtAt(k) => Len(execs) = 1 /\ sleeps = <<>>

\* C2, amended: an execution that fails with an error class outside
\* `exceptions` is the last one: the error goes to the caller with no wait
\* and no execution after it; the attempts before it were each followed by
\* one wait, so a failure of the first execution means exactly one attempt
\* and no wait.
C2_NoRetryOfUncaught ==
    \A k \in 1..Len(execs) :
        NotCaughtAt(k) =>
            /\ k = Len(execs)
            /\ Len(sleeps) = k - 1
            /\ wpc \in {"call", "done"}
            /\ wpc = "done" => outcome = Raised(execs[k].err)

C2_Witness ==
    /\ wpc = "done"
    /\ max_retries = 3
    /\ Len(execs) = 1 /\ NotCaughtAt(1)
    /\ sleeps = <<>>
    /\ outcome = Raised(execs[1].err)


(***************************************************************************)
(* The media fetchers: file_utils.py.                                      *)
(*                                                                         *)
(* A path is [abs, parts]; a URL is [netloc, segs, query], segs being the  *)
(* components of its path.  An optional value is <<>> (None) or <<v>>.     *)
(***************************************************************************)
NoneV == <<>>
Some(v) == <<v>>

\* pathlib.Path(str)
Path(parts) == [abs |-> FALSE, parts |-> parts]

\* pathlib: p / name; joining the empty name gives p itself.
Join(p, name) == IF name = "" THEN p ELSE [p EXCEPT !.parts = Append(@, name)]

\* The working directory of the process.
Cwd == <<"cwd">>

\* pathlib: p.resolve() makes p absolute.
Resolve(p) == IF p.abs THEN p ELSE [abs |-> TRUE, parts |-> Cwd \o p.parts]

\* urllib.parse.urlparse(url).path: the path without netloc and query.
urlparse_path(url) == url.segs

\* pathlib: Path(path).name, the last component, "" when there is none.
PathName(segs) == IF segs = <<>> THEN "" ELSE Last(segs)

\* `if output is None: output = Path("output/media")`
DefaultOutput(output) == IF output = NoneV THEN Path(<<"output", "media">>) ELSE output[1]

\* download_media: tweet_folder = output / tweet_id
download_media_folder(tweet_id, output) == Join(DefaultOutput(output), tweet_id)

\* A fetcher that numbers the file when the destination already exists.
download_media_path_numbered(media_url, tweet_id, output) ==
    LET plain == Join(download_media_folder(tweet_id, output),
                      PathName(urlparse_path(media_url)))
    IN  IF plain \in DOMAIN fs THEN Join(plain, "1") ELSE plain

\* download_media: filename = Path(urlparse(media_url).path).name;
\* file_path = tweet_folder / filename
download_media_path(media_url, tweet_id, output) ==
    Join(download_media_folder(tweet_id, output), PathName(urlparse_path(media_url)))

\* A folder shared by all tweets.
download_media_async_folder_flat(tweet_id, output) == DefaultOutput(output)

\* download_media_async: tweet_folder = output / tweet_id
download_media_async_folder(tweet_id, output) == Join(DefaultOutput(output), tweet_id)

\* download_media_async: the same two lines
download_media_async_path(media_url, tweet_id, output) ==
    Join(download_media_async_folder(tweet_id, output), PathName(urlparse_path(media_url)))

FilePath(variant, media_url, tweet_id, output) ==
    IF variant = "sync" THEN download_media_path(media_url, tweet_id, output)
    ELSE download_media_async_path(media_url, tweet_id, output)

Folder(variant, tweet_id, output) ==
    IF variant = "sync" THEN download_media_folder(tweet_id, output)
    ELSE download_media_async_folder(tweet_id, output)

\* A handler that catches network errors only.
DownloadExceptNetworkOnly(c, e) ==
    IF e \in {"ConnectionError", "HTTPError"}
    THEN [c EXCEPT !.pc = "returned", !.value = NoneV, !.total = 0, !.written = 0]
    ELSE [c EXCEPT !.pc = "raised", !.total = 0, !.written = 0]

\* `except Exception as e: logger.error(...); return None`
\* (the locals of the call, total and written, end with it)
DownloadExcept(c, e) ==
    [c EXCEPT !.pc = "returned", !.value = NoneV, !.total = 0, !.written = 0]

\* logger.error(f"Error downloading media from {media_url}: {e}"), with the
\* call that wrote it.
ErrorRecord(id, c) ==
    [fn |-> IF c.variant = "sync" THEN "download_media" ELSE "download_media_async",
     level |-> "error", call |-> id, about |-> c.url]

\* `return file_path.resolve()`
DownloadReturn(c) ==
    [c EXCEPT !.pc = "returned", !.value = Some(Resolve(c.path)), !.total = 0, !.written = 0]

\* The errors the file system can raise on mkdir, open and write, and the
\* network on the request and on reading the body.
NoUrl == [netloc |-> "", segs |-> <<>>, query |-> ""]

NoCall == [variant |-> "", url |-> NoUrl, tweet_id |-> "", output |-> NoneV,
           path |-> Path(<<>>), pc |-> "new", total |-> 0, written |-> 0,
           value |-> NoneV]

\* The call up to its first request: the directory is made, the destination
\* computed and the GET sent.  mk is the outcome of mkdir.
DlStart(id, variant, media_url, tweet_id, output, mk) ==
    LET c == [NoCall EXCEPT !.variant = variant, !.url = media_url,
                            !.tweet_id = tweet_id, !.output = output]
    IN  IF mk = "ok"
        THEN /\ dl' = (id :> [c EXCEPT !.pc = "get",
                                       !.path = FilePath(variant, media_url, tweet_id, output)])
                      @@ dl
             /\ UNCHANGED <<fs, log>>
        ELSE /\ dl' = (id :> DownloadExcept(c, mk)) @@ dl
             /\ log' = log \cup {ErrorRecord(id, c)}
             /\ UNCHANGED fs

\* open(file_path, "wb") fails on a directory: the destination is the folder
\* itself when the URL has no file name.
IsFolder(c) == c.path = Folder(c.variant, c.tweet_id, c.output)

\* What a GET can end in: no response, a non-2xx status (raise_for_status
\* raises) or a 2xx status with a body of some chunks.
Responses ==
    {[kind |-> k, chunks |-> 0] : k \in {"ConnectionError", "HTTPError"}}
    \cup {[kind |-> "ok", chunks |-> n] : n \in 0..MaxChunks}

\* The responses to the media requests of a search batch: the bodies have
\* MaxChunks chunks.
FullResponses == {r \in Responses : r.kind = "ok" => r.chunks = MaxChunks}

\* The response arrives; op is the outcome of open(file_path, "wb"), which
\* truncates the file.
DlResponse(id, resp, op) ==
    LET c == dl[id]
    IN  /\ c.pc = "get"
        /\ IF resp.kind # "ok"
           THEN /\ dl' = [dl EXCEPT ![id] = DownloadExcept(c, resp.kind)]
                /\ log' = log \cup {ErrorRecord(id, c)}
                /\ UNCHANGED fs
           ELSE IF op # "ok" \/ IsFolder(c)
           THEN /\ dl' = [dl EXCEPT ![id] = DownloadExcept(c, "OSError")]
                /\ log' = log \cup {ErrorRecord(id, c)}
                /\ UNCHANGED fs
           ELSE /\ dl' = [dl EXCEPT ![id] = [c EXCEPT !.pc = "write", !.total = resp.chunks]]
                /\ fs' = (c.path :> <<>>) @@ [p \in DOMAIN fs \ {c.path} |-> fs[p]]
                /\ UNCHANGED log

\* f.write(chunk) at the position of this call's file handle.
WriteAt(data, k, v) ==
    [i \in 1..(IF Len(data) > k THEN Len(data) ELSE k) |->
        IF i = k THEN v ELSE IF i <= Len(data) THEN data[i] ELSE "hole"]

\* The next chunk arrives and is written, or the body ends and the file is
\* closed, or reading or writing fails (io = "ClientPayloadError", "OSError").
DlChunk(id, io) ==
    LET c == dl[id]
    IN  /\ c.pc = "write"
        /\ IF io # "ok"
           THEN /\ dl' = [dl EXCEPT ![id] = DownloadExcept(c, io)]
                /\ log' = log \cup {ErrorRecord(id, c)}
                /\ UNCHANGED fs
           ELSE IF c.written < c.total
           THEN /\ dl' = [dl EXCEPT ![id] = [c EXCEPT !.written = @ + 1]]
                /\ fs' = [fs EXCEPT ![c.path] = WriteAt(@, c.written + 1, <<c.url, c.written + 1>>)]
                /\ UNCHANGED log
           ELSE /\ dl' = [dl EXCEPT ![id] = DownloadReturn(c)]
                /\ UNCHANGED <<fs, log>>


(***************************************************************************)
(* SpecDownload: up to MaxCalls calls of the two fetchers, one after the   *)
(* other, each with its own arguments and its own luck with the network    *)
(* and the file system.                                                    *)
(***************************************************************************)
UrlA == [netloc |-> "pbs.twimg.com", segs |-> <<"media", "a.jpg">>, query |-> ""]
UrlA2 == [netloc |-> "video.twimg.com", segs |-> <<"vid", "a.jpg">>, query |-> "tag=1"]
UrlB == [netloc |-> "pbs.twimg.com", segs |-> <<"media", "b.png">>, query |-> ""]
UrlBare == [netloc |-> "pbs.twimg.com", segs |-> <<>>, query |-> ""]
Urls == {UrlA, UrlA2, UrlB, UrlBare}

\* The URLs fetched in SpecDownload: two that end in the same file name (one
\* with a query) and one without a file name.
DownloadUrls == {UrlA, UrlA2, UrlBare}

TweetIds == {"t1", "t2"}
Outputs == {NoneV, Some(Path(<<"out", "media">>))}

Finished(c) == c.pc \in {"returned", "raised"}

download_call ==
    /\ Cardinality(DOMAIN dl) < MaxCalls
    /\ \A id \in DOMAIN dl : Finished(dl[id])
    /\ \E variant \in {"sync", "async"}, url \in DownloadUrls, tid \in TweetIds,
          mk \in {"ok", "OSError"} :
            DlStart(Cardinality(DOMAIN dl) + 1, variant, url, tid, root, mk)
    /\ UNCHANGED root
    /\ UNCHANGED <<retry_vars, search_vars, task_vars>>
    /\ UNCHANGED loop_vars
    /\ UNCHANGED app_vars

download_response ==
    /\ \E id \in DOMAIN dl, resp \in Responses,
          op \in {"ok", "OSError"} :
            DlResponse(id, resp, op)
    /\ UNCHANGED root
    /\ UNCHANGED <<retry_vars, search_vars, task_vars>>
    /\ UNCHANGED loop_vars
    /\ UNCHANGED app_vars

download_chunk ==
    /\ \E id \in DOMAIN dl, io \in {"ok", "ClientPayloadError", "OSError"} :
            DlChunk(id, io)
    /\ UNCHANGED root
    /\ UNCHANGED <<retry_vars, search_vars, task_vars>>
    /\ UNCHANGED loop_vars
    /\ UNCHANGED app_vars

InitDownload ==
    /\ WrapperEntered("async", 0, 0, 0, {})
    /\ SearchIdle
    /\ root \in Outputs
    /\ dl = <<>>
    /\ fs = <<>>
    /\ log = {}
    /\ LoopStarted
    /\ AppIdle

NextDownload ==
    \/ download_call
    \/ download_response
    \/ download_chunk

SpecDownload == InitDownload /\ [][NextDownload]_vars


(***************************************************************************)
(* Claims about the media fetchers, checked under SpecDownload.            *)
(***************************************************************************)
Logged(id) ==
    \E r \in log : r.call = id /\ r.level = "error" /\ r.about = dl[id].url
                   /\ r.fn \in {"download_media", "download_media_async"}

\* C8: no call of download_media or download_media_async ends by raising; a
\* call that returned gave either None, and then an error was logged by it,
\* or the resolved absolute path of its destination, which then exists, and
\* logged no error.
C8_NeverRaises ==
    \A id \in DOMAIN dl :
        LET c == dl[id]
        IN  /\ c.pc # "raised"
            /\ c.pc \in {"get", "write"} => ~Logged(id)
            /\ c.pc = "returned" =>
                  \/ c.value = NoneV /\ Logged(id)
                  \/ /\ ~Logged(id)
                     /\ c.value # NoneV
                     /\ c.value[1].abs
                     /\ c.value[1].parts = (IF c.path.abs THEN <<>> ELSE Cwd) \o c.path.parts
                     /\ c.path \in DOMAIN fs

C8_Witness ==
    \E a, b \in DOMAIN dl :
        /\ dl[a].pc = "returned" /\ dl[a].value = NoneV /\ Logged(a)
        /\ dl[a].path \in DOMAIN fs
        /\ dl[b].pc = "returned" /\ dl[b].value # NoneV
        /\ dl[a].variant # dl[b].variant

\* The destination root/identifier/filename, written out.
ExpectedParts(c) ==
    (IF root = NoneV THEN <<"output", "media">> ELSE root[1].parts)
    \o <<c.tweet_id>>
    \o (IF c.url.segs = <<>> THEN <<>> ELSE <<c.url.segs[Len(c.url.segs)]>>)

HasPath(c) == c.pc \in {"get", "write"} \/ (c.pc = "returned" /\ c.value # NoneV)

\* C9: the destination of every fetch is root/identifier/filename, filename
\* being the last component of the URL's path; so two fetches with the same
\* identifier and URL have the same destination, whichever came first,
\* whatever was fetched before and whichever fetcher was called.
C9_PathDeterministic ==
    /\ \A id \in DOMAIN dl :
          HasPath(dl[id]) =>
              /\ dl[id].path.parts = ExpectedParts(dl[id])
              /\ dl[id].path.abs = (IF root = NoneV THEN FALSE ELSE root[1].abs)
    /\ \A a, b \in DOMAIN dl :
          (/\ HasPath(dl[a]) /\ HasPath(dl[b])
           /\ dl[a].tweet_id = dl[b].tweet_id /\ dl[a].url = dl[b].url)
              => dl[a].path = dl[b].path

C9_Witness ==
    \E a, b \in DOMAIN dl :
        /\ a < b
        /\ dl[a].tweet_id = dl[b].tweet_id /\ dl[a].url = dl[b].url
        /\ dl[a].pc = "returned" /\ dl[a].value # NoneV
        /\ dl[b].pc = "returned" /\ dl[b].value = dl[a].value
        /\ dl[a].variant = "async" /\ dl[b].variant = "sync"


(***************************************************************************)
(* The search orchestrator: twitter.py, with build_media_item_async of     *)
(* helpers.py.                                                             *)
(*                                                                         *)
(* The decorator of fetch_tweets_by_search_async:                          *)
(*   @retry_on_exception_async(max_retries=3, delay=60, backoff=2,         *)
(*                             exceptions=(PyTwitterError,))               *)
(***************************************************************************)
SearchMaxRetries == 3
SearchDelay == 60
SearchBackoff == 2
SearchExceptions == {"PyTwitterError"}

\* `assert num_posts >= 10`
MinPosts == 10
\* `max_request = min(num_posts, 100)`
MaxRequest == 100

\* Path(self.output_name) / "media", output_name being "output" by default.
SearchOutput == Some(Join(Path(<<"output">>), "media"))

\* res.includes.media of a response.  m1 and m2 have different URLs that end
\* in the same file name; m3 has no URL and no variant with one; m4 is an
\* object without the attributes build_media_item_async reads.  The key m0
\* is in no response.
NoVariant == [url |-> NoneV, content_type |-> "application/x-mpegURL"]
IncludesMedia ==
    {[media_key |-> "m1", url |-> Some(UrlA), variants |-> <<>>, malformed |-> FALSE],
     [media_key |-> "m2", url |-> Some(UrlA2), variants |-> <<>>, malformed |-> FALSE],
     [media_key |-> "m3", url |-> NoneV, variants |-> <<NoVariant>>, malformed |-> FALSE],
     [media_key |-> "m4", url |-> NoneV, variants |-> <<>>, malformed |-> TRUE]}

\* res.includes.users
IncludesUsers == {[id |-> "u1", username |-> "alice"]}

\* The shapes of a record of res.data: its attachments.media_keys, its
\* author_id (u9 is in no response) and whether its normalisation raises
\* (an attribute the code reads is missing).
Shape(keys, author, bad) == [media_keys |-> keys, author_id |-> author, malformed |-> bad]
TweetShapes ==
    {Shape(<<>>, "u1", FALSE),
     Shape(<<"m1">>, "u1", FALSE), Shape(<<"m1">>, "u1", TRUE),
     Shape(<<"m0">>, "u9", FALSE), Shape(<<"m3", "m4">>, "u1", FALSE),
     Shape(<<"m1", "m2">>, "u1", FALSE), Shape(<<"m1", "m1">>, "u1", FALSE)}

\* The record of res.data in position i.
TweetIdOf(i) == <<"t1", "t2", "t3", "t4">>[i]

Tweet(i, keys, author, bad) ==
    [id |-> TweetIdOf(i), media_keys |-> keys, author_id |-> author, malformed |-> bad]

RECURSIVE TotalKeys(_)
TotalKeys(batch) ==
    IF batch = <<>> THEN 0
    ELSE Len(batch[1].media_keys) + TotalKeys(Tail(batch))

\* The batches a search can return: up to MaxTweets records with distinct
\* ids and up to MaxKeys media keys between them.
Batches ==
    UNION {
        {b \in [1..n -> TweetShapes] : TotalKeys(b) <= MaxKeys}
        : n \in 0..MaxTweets }

WithIds(b) == [i \in 1..Len(b) |-> Tweet(i, b[i].media_keys, b[i].author_id, b[i].malformed)]


\* media_lookup = {media.media_key: media for media in includes.media}
BuildMediaLookup(media) ==
    [k \in {m.media_key : m \in media} |-> CHOOSE m \in media : m.media_key = k]

\* user_lookup = {user.id: user for user in includes.users}
BuildUserLookup(users) ==
    [k \in {u.id : u \in users} |-> CHOOSE u \in users : u.id = k]

\* `"video/mp4" in getattr(variant, "content_type", "")`, for the content
\* types of the model
ContainsMp4(content_type) == content_type \in {"video/mp4", "video/mp4; codecs=avc1"}

\* build_media_item_async: the choice of download_url.
RECURSIVE FirstVariantUrl(_, _)
FirstVariantUrl(variants, mp4only) ==
    IF variants = <<>> THEN NoneV
    ELSE IF /\ variants[1].url # NoneV
            /\ (~mp4only \/ ContainsMp4(variants[1].content_type))
         THEN variants[1].url
         ELSE FirstVariantUrl(Tail(variants), mp4only)

\* A choice that takes the first variant with a URL, of any content type.
SelectDownloadUrlAnyFirst(media) ==
    IF media.url # NoneV THEN media.url ELSE FirstVariantUrl(media.variants, FALSE)

SelectDownloadUrl(media) ==
    IF media.url # NoneV THEN media.url
    ELSE IF media.variants # <<>>
         THEN IF FirstVariantUrl(media.variants, TRUE) # NoneV
              THEN FirstVariantUrl(media.variants, TRUE)
              ELSE FirstVariantUrl(media.variants, FALSE)
         ELSE NoneV

\* The item of build_media_item_async: the dict it returns, or the error it
\* raises, which gather(return_exceptions=True) hands over as a value.
Item(media, local_path, download_url) ==
    [type |-> "dict", media_key |-> media.media_key,
     local_path |-> local_path, download_url |-> download_url]
ItemError(media) ==
    [type |-> "AttributeError", media_key |-> media.media_key,
     local_path |-> NoneV, download_url |-> NoneV]
NoItem == [type |-> "none", media_key |-> "", local_path |-> NoneV, download_url |-> NoneV]

\* A builder that attaches the destination without looking at what the
\* download returned.
ItemAfterDownloadUnchecked(media, c) == Item(media, Some(Resolve(c.path)), Some(c.url))

\* A builder that raises when the download gave nothing.
ItemAfterDownloadRaising(media, c) ==
    IF c.value # NoneV THEN Item(media, c.value, Some(c.url)) ELSE ItemError(media)

\* `if local_path: item["local_path"] = str(local_path); item["download_url"] = ...`
ItemAfterDownload(media, c) ==
    IF c.value # NoneV THEN Item(media, c.value, Some(c.url))
    ELSE Item(media, NoneV, NoneV)

\* The keys of the dict process_tweet_async compiles; {} has none.
TweetKeys == {"tweet_id", "text", "created_at", "lang", "possibly_sensitive",
              "reply_settings", "source", "public_metrics", "entities",
              "context_annotations", "conversation_id", "author_id",
              "referenced_tweets", "attachments", "media", "author", "tweet_url"}

TweetMetadata(tweet, media_info, user_info) ==
    [type |-> "dict", keys |-> TweetKeys, tweet_id |-> tweet.id,
     media |-> media_info, author |-> user_info]
EmptyDict ==
    [type |-> "dict", keys |-> {}, tweet_id |-> "", media |-> <<>>, author |-> NoneV]
NoResult ==
    [type |-> "none", keys |-> {}, tweet_id |-> "", media |-> <<>>, author |-> NoneV]

\* `isinstance(metadata, dict)`, for the records and for the media items
IsInstanceDict(r) == r.type = "dict"

\* [x for x in xs if isinstance(x, dict)]
RECURSIVE FilterDicts(_)
FilterDicts(xs) ==
    IF xs = <<>> THEN <<>>
    ELSE IF IsInstanceDict(xs[1]) THEN <<xs[1]>> \o FilterDicts(Tail(xs))
         ELSE FilterDicts(Tail(xs))

\* The media tasks process_tweet_async creates for record i: one for each
\* position j of media_keys whose key is in media_lookup.
MediaTasksOf(i) ==
    {<<i, j>> : j \in {j \in 1..Len(tweets[i].media_keys) :
                        tweets[i].media_keys[j] \in DOMAIN media_lookup}}

RECURSIVE ItemsFrom(_, _)
\* media_items, in the order of the tasks
ItemsFrom(i, j) ==
    IF j > Len(tweets[i].media_keys) THEN <<>>
    ELSE (IF <<i, j>> \in DOMAIN mtask THEN <<mtask[<<i, j>>].item>> ELSE <<>>)
         \o ItemsFrom(i, j + 1)

\* user_info
UserInfo(tweet) ==
    IF tweet.author_id \in DOMAIN user_lookup
    THEN Some(user_lookup[tweet.author_id]) ELSE NoneV

TweetError(i) == [fn |-> "process_tweet_async", level |-> "error",
                  call |-> <<i, 0>>, about |-> NoUrl]

\* The rest of process_tweet_async once media_info is known: the dict, or,
\* when anything raises, the handler's `return {}`.
Compile(i, media_info) ==
    IF tweets[i].malformed THEN EmptyDict
    ELSE TweetMetadata(tweets[i], media_info, UserInfo(tweets[i]))


wrapper_rest == <<style, max_retries, delay, backoff, exceptions, wpc, attempt,
                  current_delay, sleeps, outcome>>

\* The body is entered by the wrapper's call and has not ended yet.
InBody == wpc = "call" /\ fres.status = "pending"

\* A body that passes num_posts on as it is.
RequestSizeUncapped(n) == n

\* max_request = min(num_posts, 100)
RequestSize(n) == IF n < MaxRequest THEN n ELSE MaxRequest

\* A check that only asks for a positive number.
AssertPositive(n) == n >= 1

\* `assert num_posts >= 10, "num_posts must be at least 10"`
AssertNumPosts(n) == n >= MinPosts

\* A join that lets the first failure of a record through to the caller
\* (gather without return_exceptions, no handler in the record task).
SearchResultFailFast(results) ==
    IF \E k \in 1..Len(results) : results[k].keys = {}
    THEN Raised([kind |-> "AttributeError", id |-> Len(execs)])
    ELSE Returned(results)

\* A join that collects the results as the tasks finish: the records without
\* media tasks finish in their first step, the others later.
SearchResultAsCompleted(results) ==
    LET idx == [i \in 1..Len(results) |-> i]
        early == SelectSeq(idx, LAMBDA i : MediaTasksOf(i) = {})
        late == SelectSeq(idx, LAMBDA i : MediaTasksOf(i) # {})
        order == early \o late
    IN  Returned(FilterDicts([k \in 1..Len(order) |-> results[order[k]]]))

\* tweet_metadata_list = await asyncio.gather(*tasks, return_exceptions=True);
\* tweets_data = [m for m in tweet_metadata_list if isinstance(m, dict)];
\* return tweets_data
SearchResult(results) == Returned(FilterDicts(results))

\* `assert num_posts >= 10` fails: AssertionError, before any request.
search_reject ==
    /\ InBody /\ fpc = "idle"
    /\ ~AssertNumPosts(num_posts)
    /\ SetRes(Raised([kind |-> "AssertionError", id |-> Len(execs)]))
    /\ UNCHANGED <<wrapper_rest, search_vars, task_vars, dl_vars>>
    /\ UNCHANGED loop_vars
    /\ UNCHANGED app_vars

SearchRequest == [max_results |-> RequestSize(num_posts), attempt |-> attempt]

\* self.api.search_tweets(...) raises: an error of the social API
\* (PyTwitterError) or of the transport below it.
search_request_fail ==
    /\ InBody /\ fpc = "idle"
    /\ AssertNumPosts(num_posts)
    /\ requests' = Append(requests, SearchRequest)
    /\ \E k \in {"PyTwitterError", "ConnectionError"} :
          SetRes(Raised([kind |-> k, id |-> Len(execs)]))
    /\ UNCHANGED <<wrapper_rest, num_posts, fpc, tweets, media_lookup, user_lookup,
                   task_vars, dl_vars>>
    /\ UNCHANGED loop_vars
    /\ UNCHANGED app_vars

\* self.api.search_tweets(...) returns: the lookup tables are built and one
\* coroutine per record is handed to asyncio.gather; without records the
\* body returns [] at once.
search_request_ok ==
    /\ InBody /\ fpc = "idle"
    /\ AssertNumPosts(num_posts)
    /\ requests' = Append(requests, SearchRequest)
    /\ \E b \in Batches :
          /\ tweets' = WithIds(b)
          /\ media_lookup' = BuildMediaLookup(IncludesMedia)
          /\ user_lookup' = BuildUserLookup(IncludesUsers)
          /\ IF b = <<>>
             THEN /\ SetRes(Returned(<<>>))
                  /\ UNCHANGED <<fpc, ttask>>
             ELSE /\ fpc' = "gather"
                  /\ ttask' = [i \in 1..Len(b) |-> [pc |-> "new", result |-> NoResult]]
                  /\ UNCHANGED execs
    /\ UNCHANGED <<wrapper_rest, num_posts, mtask, dl_vars>>
    /\ UNCHANGED loop_vars
    /\ UNCHANGED app_vars

\* The event loop runs the callbacks that are ready in the order in which they
\* were scheduled (call_soon is first in, first out), and looks for finished
\* I/O only when it has run them.  So the record tasks gather schedules take
\* their first step in the order of the batch, the media tasks they schedule
\* take theirs after that, in the order of their creation, and a response
\* is handled only when every task has taken its first step.  From then on
\* the network decides the order.
Before(a, b) == a[1] < b[1] \/ (a[1] = b[1] /\ a[2] < b[2])

AllStarted ==
    /\ \A i \in DOMAIN ttask : ttask[i].pc # "new"
    /\ \A id \in DOMAIN mtask : mtask[id].pc # "new"

\* process_tweet_async up to its first await: the media tasks are created and
\* gathered; a record without media tasks is compiled at once.
process_tweet_start(i) ==
    /\ fpc = "gather"
    /\ ttask[i].pc = "new"
    /\ \A k \in 1..(i - 1) : ttask[k].pc # "new"
    /\ IF MediaTasksOf(i) = {}
       THEN /\ ttask' = [ttask EXCEPT ![i] = [pc |-> "done", result |-> Compile(i, <<>>)]]
            /\ log' = IF tweets[i].malformed THEN log \cup {TweetError(i)} ELSE log
            /\ UNCHANGED mtask
       ELSE /\ ttask' = [ttask EXCEPT ![i].pc = "gather"]
            /\ mtask' = [id \in DOMAIN mtask \cup MediaTasksOf(i) |->
                            IF id \in DOMAIN mtask THEN mtask[id]
                            ELSE [pc |-> "new", item |-> NoItem]]
            /\ UNCHANGED log
    /\ UNCHANGED <<retry_vars, search_vars, root, dl, fs>>
    /\ UNCHANGED loop_vars
    /\ UNCHANGED app_vars

MediaOf(id) == media_lookup[tweets[id[1]].media_keys[id[2]]]

\* build_media_item_async up to its first await: the item is built and the
\* download URL chosen; with a URL, download_media_async runs up to its
\* request.  mk is the outcome of its mkdir.
media_start(id, mk) ==
    /\ id \in DOMAIN mtask
    /\ mtask[id].pc = "new"
    /\ \A i \in DOMAIN ttask : ttask[i].pc # "new"
    /\ \A other \in DOMAIN mtask : Before(other, id) => mtask[other].pc # "new"
    /\ LET media == MediaOf(id)
           url == SelectDownloadUrl(media)
       IN  IF media.malformed
           THEN /\ mtask' = [mtask EXCEPT ![id] = [pc |-> "done", item |-> ItemError(media)]]
                /\ UNCHANGED dl_vars
           ELSE IF url = NoneV
           THEN /\ mtask' = [mtask EXCEPT ![id] = [pc |-> "done", item |-> Item(media, NoneV, NoneV)]]
                /\ UNCHANGED dl_vars
           ELSE /\ DlStart(id, "async", url[1], tweets[id[1]].id, root, mk)
                /\ mtask' = [mtask EXCEPT ![id] =
                                IF Finished(dl'[id])
                                THEN [pc |-> "done", item |-> ItemAfterDownload(media, dl'[id])]
                                ELSE [pc |-> "download", item |-> NoItem]]
                /\ UNCHANGED root
    /\ UNCHANGED <<retry_vars, search_vars, ttask>>
    /\ UNCHANGED loop_vars
    /\ UNCHANGED app_vars

\* When download_media_async returns, build_media_item_async goes on in the
\* same step and returns the item.
AfterDownloadStep(id) ==
    mtask' = [mtask EXCEPT ![id] =
                 IF Finished(dl'[id])
                 THEN [pc |-> "done", item |-> ItemAfterDownload(MediaOf(id), dl'[id])]
                 ELSE @]

media_response(id, resp, op) ==
    /\ id \in DOMAIN mtask
    /\ mtask[id].pc = "download"
    /\ AllStarted
    /\ DlResponse(id, resp, op)
    /\ AfterDownloadStep(id)
    /\ UNCHANGED <<retry_vars, search_vars, ttask, root>>
    /\ UNCHANGED loop_vars
    /\ UNCHANGED app_vars

media_chunk(id, io) ==
    /\ id \in DOMAIN mtask
    /\ mtask[id].pc = "download"
    /\ AllStarted
    /\ DlChunk(id, io)
    /\ AfterDownloadStep(id)
    /\ UNCHANGED <<retry_vars, search_vars, ttask, root>>
    /\ UNCHANGED loop_vars
    /\ UNCHANGED app_vars

\* A join of the media tasks that is over with the first item.
MediaGatherFirst(i) == \E id \in MediaTasksOf(i) : mtask[id].pc = "done"

\* `media_items = await asyncio.gather(*media_tasks, return_exceptions=True)`
\* goes on when every media task of the record has ended.
MediaGatherDone(i) == \A id \in MediaTasksOf(i) : mtask[id].pc = "done"

\* The gather of the media tasks is over: media_info is filtered and the
\* record compiled.
process_tweet_resume(i) ==
    /\ fpc = "gather"
    /\ ttask[i].pc = "gather"
    /\ AllStarted
    /\ MediaGatherDone(i)
    /\ ttask' = [ttask EXCEPT ![i] =
                    [pc |-> "done", result |-> Compile(i, FilterDicts(ItemsFrom(i, 1)))]]
    /\ log' = IF tweets[i].malformed THEN log \cup {TweetError(i)} ELSE log
    /\ UNCHANGED <<retry_vars, search_vars, mtask, root, dl, fs>>
    /\ UNCHANGED loop_vars
    /\ UNCHANGED app_vars

\* A join of the record tasks that is over as soon as one record has failed.
GatherFailFast ==
    \/ \A i \in DOMAIN ttask : ttask[i].pc = "done"
    \/ \E i \in DOMAIN ttask : ttask[i].pc = "done" /\ ttask[i].result.keys = {}

\* `await asyncio.gather(*tasks, return_exceptions=True)` goes on when every
\* record task has ended.
GatherDone == \A i \in DOMAIN ttask : ttask[i].pc = "done"

\* The gather of the record tasks is over: tweets_data is filtered and returned.
search_return ==
    /\ InBody /\ fpc = "gather"
    /\ GatherDone
    /\ SetRes(SearchResult([i \in DOMAIN ttask |-> ttask[i].result]))
    /\ fpc' = "idle"
    /\ UNCHANGED <<wrapper_rest, num_posts, requests, tweets, media_lookup, user_lookup,
                   task_vars, dl_vars>>
    /\ UNCHANGED loop_vars
    /\ UNCHANGED app_vars

\* The arguments of the top-level call.
NumPostsValues == {5, 9, 10, 250}

Init ==
    /\ WrapperEntered("async", SearchMaxRetries, SearchDelay, SearchBackoff,
                      SearchExceptions)
    /\ num_posts \in NumPostsValues
    /\ fpc = "idle"
    /\ requests = <<>>
    /\ tweets = <<>>
    /\ media_lookup = <<>>
    /\ user_lookup = <<>>
    /\ ttask = <<>>
    /\ mtask = <<>>
    /\ root = SearchOutput
    /\ dl = <<>>
    /\ fs = <<>>
    /\ log = {}
    /\ LoopStarted
    /\ AppIdle

Next ==
    \/ wrapper_try
    \/ wrapper_return
    \/ wrapper_propagate
    \/ wrapper_raise
    \/ retry_on_exception_async_sleep
    \/ retry_on_exception_async_resume
    \/ search_reject
    \/ search_request_fail
    \/ search_request_ok
    \/ \E i \in DOMAIN ttask : process_tweet_start(i)
    \/ \E id \in DOMAIN mtask, mk \in {"ok", "OSError"} : media_start(id, mk)
    \/ \E id \in DOMAIN mtask, resp \in FullResponses, op \in {"ok", "OSError"} :
          media_response(id, resp, op)
    \/ \E id \in DOMAIN mtask, io \in {"ok", "ClientPayloadError", "OSError"} :
          media_chunk(id, io)
    \/ \E i \in DOMAIN ttask : process_tweet_resume(i)
    \/ search_return

Spec == Init /\ [][Next]_vars


(***************************************************************************)
(* Claims about fetch_tweets_by_search_async, checked under Spec.          *)
(***************************************************************************)
CallReturned == wpc = "done" /\ outcome.status = "returned"

FailedRecords == {i \in 1..Len(tweets) : tweets[i].malformed}

\* C3: when the call returns for a batch of N records of which M < N failed
\* during enrichment, the list has exactly N - M elements, none of them the
\* empty mapping, and every failure was logged.
C3_FailedRecordsOmitted ==
    (CallReturned /\ Cardinality(FailedRecords) < Len(tweets)) =>
        /\ Len(outcome.value) = Len(tweets) - Cardinality(FailedRecords)
        /\ \A k \in 1..Len(outcome.value) : outcome.value[k].keys # {}
        /\ \A i \in FailedRecords :
              \E r \in log : r.fn = "process_tweet_async" /\ r.call = <<i, 0>>

\* The media a well-formed record ends with: one item for each of its keys
\* that the response describes by a readable object, in the order of the keys.
Usable(k) == k \in {"m1", "m2", "m3"}
ExpectedMediaKeys(keys) == SelectSeq(keys, Usable)
ExpectedLocalPath(tid) ==
    Some([abs |-> TRUE, parts |-> <<"cwd", "output", "media", tid, "a.jpg">>])

FullyEnriched(r, tweet) ==
    /\ r.type = "dict"
    /\ r.keys = TweetKeys
    /\ r.tweet_id = tweet.id
    /\ r.author = (IF tweet.author_id = "u1"
                   THEN Some([id |-> "u1", username |-> "alice"]) ELSE NoneV)
    /\ Len(r.media) = Len(ExpectedMediaKeys(tweet.media_keys))
    /\ \A j \in 1..Len(r.media) :
          /\ r.media[j].type = "dict"
          /\ r.media[j].media_key = ExpectedMediaKeys(tweet.media_keys)[j]
          /\ r.media[j].local_path \in {NoneV, ExpectedLocalPath(tweet.id)}
          /\ (r.media[j].local_path = NoneV) = (r.media[j].download_url = NoneV)

\* C4: once a batch is being processed the call ends by returning, and the
\* list it returns holds, fully enriched, every record that does not fail on
\* its own, whatever happened to the other records and to their downloads.
C4_FailuresIsolated ==
    /\ (wpc = "done" /\ tweets # <<>>) => outcome.status = "returned"
    /\ CallReturned =>
          \A i \in 1..Len(tweets) :
              ~tweets[i].malformed =>
                  \E k \in 1..Len(outcome.value) :
                      FullyEnriched(outcome.value[k], tweets[i])

C4_Witness ==
    /\ CallReturned
    /\ Len(tweets) = 2
    /\ tweets[1].malformed /\ tweets[1].media_keys = <<"m1">>
    /\ dl[<<1, 1>>].value = NoneV
    /\ ~tweets[2].malformed /\ tweets[2].media_keys = <<"m1">>
    /\ \E k \in 1..Len(outcome.value) :
          /\ FullyEnriched(outcome.value[k], tweets[2])
          /\ outcome.value[k].media[1].local_path # NoneV

\* C5: a call with num_posts < 10 issues no search request, runs the body
\* once and ends with the AssertionError of that run, without any wait.
C5_RejectedBeforeRequest ==
    num_posts < 10 =>
        /\ requests = <<>>
        /\ Len(execs) <= 1
        /\ sleeps = <<>>
        /\ wpc = "done" =>
              /\ Len(execs) = 1
              /\ outcome = Raised([kind |-> "AssertionError", id |-> 1])

C5_Witness ==
    /\ num_posts = 5
    /\ wpc = "done"
    /\ outcome.status = "raised" /\ outcome.err.kind = "AssertionError"
    /\ Len(execs) = 1 /\ requests = <<>>

\* C6: for num_posts >= 10 every attempt issues one search request, of size
\* min(num_posts, 100), which lies in 10..100, and nothing more.
C6_OneBoundedRequest ==
    num_posts >= 10 =>
        /\ \A k \in 1..Len(requests) :
              /\ requests[k].max_results = (IF num_posts <= 100 THEN num_posts ELSE 100)
              /\ requests[k].max_results \in 10..100
              /\ requests[k].attempt = k - 1
        /\ Len(requests) \in {Len(execs) - 1, Len(execs)}
        /\ (Len(execs) > 0 /\ (fres.status # "pending" \/ fpc = "gather"))
              => Len(requests) = Len(execs)

C6_Witness ==
    /\ num_posts = 250
    /\ CallReturned
    /\ Len(outcome.value) = 2
    /\ Len(requests) = 2
    /\ requests[2].max_results = 100

ApiErrorAt(k) == execs[k].status = "raised" /\ execs[k].err.kind = "PyTwitterError"

\* C7: only an error of the social API is retried; when every search request
\* fails with one, there are exactly 3 attempts with waits of 60 and 120
\* seconds between them, none after the third, and the third error goes to
\* the caller; an attempt that succeeds is the last, with no request after it.
C7_RetriesApiErrorsOnly ==
    /\ Len(execs) <= 3
    /\ \A k \in 1..(Len(execs) - 1) : ApiErrorAt(k)
    /\ Len(sleeps) \in {Len(execs) - 1, Len(execs)}
    /\ Len(sleeps) <= 2
    /\ \A k \in 1..Len(sleeps) :
          /\ ApiErrorAt(k)
          /\ sleeps[k] = [fn |-> "asyncio.sleep", secs |-> (IF k = 1 THEN 60 ELSE 120)]
    /\ (wpc = "done" /\ \A k \in 1..Len(execs) : ApiErrorAt(k)) =>
          /\ Len(execs) = 3
          /\ Len(requests) = 3
          /\ Len(sleeps) = 2
          /\ outcome = Raised(execs[3].err)
    /\ \A k \in 1..Len(execs) :
          execs[k].status = "returned" =>
              /\ k = Len(execs)
              /\ Len(requests) = k
              /\ Len(sleeps) = k - 1
              /\ wpc = "done" => outcome = Returned(execs[k].value)

C7_Witness ==
    /\ wpc = "done"
    /\ Len(execs) = 3
    /\ \A k \in 1..3 : ApiErrorAt(k)
    /\ sleeps = <<[fn |-> "asyncio.sleep", secs |-> 60], [fn |-> "asyncio.sleep", secs |-> 120]>>
    /\ outcome = Raised([kind |-> "PyTwitterError", id |-> 3])

\* C10: no two media downloads of a batch have the same destination open for
\* writing at the same time.
C10_NoSharedDestination ==
    \A a, b \in DOMAIN dl :
        (a # b /\ dl[a].pc = "write" /\ dl[b].pc = "write") => dl[a].path # dl[b].path


(***************************************************************************)
(* Claims about the media items of a batch, checked under Spec.            *)
(***************************************************************************)
DownloadGavePath(id) ==
    id \in DOMAIN dl /\ dl[id].pc = "returned" /\ dl[id].value # NoneV

DownloadFailed(id) ==
    id \in DOMAIN dl /\ dl[id].pc = "returned" /\ dl[id].value = NoneV

C11_ItemState ==
    /\ \A id \in DOMAIN mtask :
          LET item == mtask[id].item
              url == SelectDownloadUrl(MediaOf(id))
          IN  /\ mtask[id].pc # "done" => item.local_path = NoneV
              /\ (mtask[id].pc = "done" /\ item.type = "dict") =>
                    /\ (item.local_path # NoneV) = (url # NoneV /\ DownloadGavePath(id))
                    /\ (item.local_path # NoneV) = (item.download_url # NoneV)
                    /\ item.local_path # NoneV =>
                          item.local_path = dl[id].value /\ item.download_url = url
              /\ DownloadFailed(id) =>
                    /\ mtask[id].pc = "done"
                    /\ item.type = "dict"
                    /\ item.local_path = NoneV
    /\ \A i \in DOMAIN ttask :
          (ttask[i].pc = "done" /\ ttask[i].result.keys # {}) =>
              \A j \in 1..Len(ttask[i].result.media) :
                  \E id \in MediaTasksOf(i) : ttask[i].result.media[j] = mtask[id].item

C11_ItemStep ==
    \A id \in DOMAIN mtask :
        (mtask[id].pc = "done" \/ mtask[id].item.local_path # NoneV) =>
            mtask'[id] = mtask[id]

\* C11: an item of build_media_item_async has local_path, and with it
\* download_url, exactly when a download URL was selected and the download
\* returned a path; a failed download leaves the item a plain item without
\* local_path; and an item that was returned, or whose local_path was set,
\* never changes again, also not inside the record that holds it.
C11_LocalPathOnce == []C11_ItemState /\ [][C11_ItemStep]_vars

C11_Witness ==
    /\ CallReturned
    /\ \E a, b \in DOMAIN mtask :
          /\ a[1] = b[1] /\ a # b
          /\ DownloadGavePath(a) /\ mtask[a].item.local_path = dl[a].value
          /\ DownloadFailed(b) /\ mtask[b].item.local_path = NoneV
          /\ \E k \in 1..Len(outcome.value) :
                /\ Len(outcome.value[k].media) = 2
                /\ outcome.value[k].media[a[2]] = mtask[a].item
                /\ outcome.value[k].media[b[2]] = mtask[b].item


\* The record of the returned list made from record i of the batch.
ReturnedRecords(i) ==
    {k \in 1..Len(outcome.value) : outcome.value[k].tweet_id = tweets[i].id}

BuiltItems(i) == {id \in MediaTasksOf(i) : mtask[id].item.type = "dict"}

DownloadErrorLogged(id) ==
    \E r \in log : /\ r.fn = "download_media_async" /\ r.level = "error"
                   /\ r.call = id /\ r.about = dl[id].url

\* C12 as stated: in the list the call returns, the media of a record hold
\* no item whose download failed (the item is left out), the failure was
\* logged and the record is in the list.
C12_FailedItemOmitted ==
    CallReturned =>
        \A i \in 1..Len(tweets) :
            ~tweets[i].malformed =>
                /\ ReturnedRecords(i) # {}
                /\ \A k \in ReturnedRecords(i) :
                      Len(outcome.value[k].media) =
                          Cardinality({id \in BuiltItems(i) : ~DownloadFailed(id)})
                /\ \A id \in MediaTasksOf(i) : DownloadFailed(id) => DownloadErrorLogged(id)

\* C12, amended: an item whose download failed stays in the media of its
\* record, without local_path and download_url; the failure was logged; the
\* record holds every item that was built, and the call returns the records
\* of the batch.
C12_FailedItemKept ==
    /\ (wpc = "done" /\ tweets # <<>>) => outcome.status = "returned"
    /\ CallReturned =>
          \A i \in 1..Len(tweets) :
              /\ \A id \in MediaTasksOf(i) : DownloadFailed(id) => DownloadErrorLogged(id)
              /\ ~tweets[i].malformed =>
                    /\ ReturnedRecords(i) # {}
                    /\ \A k \in ReturnedRecords(i) :
                          /\ Len(outcome.value[k].media) = Cardinality(BuiltItems(i))
                          /\ \A id \in MediaTasksOf(i) :
                                DownloadFailed(id) =>
                                    \E j \in 1..Len(outcome.value[k].media) :
                                        outcome.value[k].media[j] =
                                            [type |-> "dict",
                                             media_key |-> tweets[i].media_keys[id[2]],
                                             local_path |-> NoneV,
                                             download_url |-> NoneV]

C12_Witness ==
    /\ CallReturned
    /\ Len(tweets) = 2
    /\ ~tweets[1].malformed /\ ~tweets[2].malformed
    /\ DownloadFailed(<<1, 1>>) /\ DownloadErrorLogged(<<1, 1>>)
    /\ DownloadGavePath(<<2, 1>>)
    /\ Len(outcome.value) = 2
    /\ outcome.value[1].media[1].local_path = NoneV
    /\ outcome.value[2].media[1].local_path # NoneV


(***************************************************************************)
(* Claims about the join of the batch, checked under Spec.                 *)
(***************************************************************************)
\* The ways of reading a list of n elements as a subsequence of a batch of m.
Embeddings(n, m) ==
    {f \in [1..n -> 1..m] : \A a, b \in 1..n : a < b => f[a] < f[b]}

\* C13: the list the call returns is, element by element, made from records
\* of the search response taken in the order of the response (an element with
\* an id from the record of that id, an empty one from a record that failed),
\* whatever the order in which the record tasks finished.
C13_InputOrder ==
    CallReturned =>
        \E f \in Embeddings(Len(outcome.value), Len(tweets)) :
            \A k \in 1..Len(outcome.value) :
                IF outcome.value[k].keys = {}
                THEN tweets[f[k]].malformed
                ELSE outcome.value[k].tweet_id = tweets[f[k]].id

\* The second record has no media and is compiled in its first step; the
\* first one is compiled after its download, so it finished later.
C13_Witness ==
    /\ CallReturned
    /\ Len(tweets) = 2
    /\ tweets[2].media_keys = <<>>
    /\ DownloadGavePath(<<1, 1>>)
    /\ Len(outcome.value) = 2
    /\ outcome.value[1].tweet_id = "t1"
    /\ outcome.value[2].tweet_id = "t2"


AllMediaTasks == UNION {MediaTasksOf(i) : i \in 1..Len(tweets)}

\* C14: from the moment the body returns for a batch, every record task and
\* every media task of the batch exists and has ended, every download has
\* returned, and this is so also when a record or an item of the batch
\* failed.
C14_NothingPending ==
    (Len(execs) > 0 /\ fres.status = "returned" /\ tweets # <<>>) =>
        /\ DOMAIN ttask = 1..Len(tweets)
        /\ \A i \in DOMAIN ttask : ttask[i].pc = "done"
        /\ DOMAIN mtask = AllMediaTasks
        /\ \A id \in DOMAIN mtask : mtask[id].pc = "done"
        /\ \A id \in DOMAIN dl : dl[id].pc = "returned"
        /\ \A id \in DOMAIN mtask :
              SelectDownloadUrl(MediaOf(id)) # NoneV /\ ~MediaOf(id).malformed
                  => id \in DOMAIN dl

C14_Witness ==
    /\ CallReturned
    /\ Len(tweets) = 2
    /\ tweets[1].malformed /\ ttask[1].result.keys = {}
    /\ DownloadGavePath(<<1, 1>>)
    /\ ~tweets[2].malformed
    /\ DownloadFailed(<<2, 1>>)
    /\ \A i \in DOMAIN ttask : ttask[i].pc = "done"
    /\ \A id \in DOMAIN mtask : mtask[id].pc = "done"


(***************************************************************************)
(* SpecLoop: a coroutine decorated with retry_on_exception_async and, on   *)
(* the same event loop, another task that calls download_media_async.  A   *)
(* step of a task is the code between two awaits; the loop runs one step   *)
(* at a time and the clock moves while a step runs or the loop waits.      *)
(***************************************************************************)
\* The seconds a step of another task may take.
StepTimes == {0, 1}

\* The loop ran a step of another task that took d seconds.
LoopRan(d) ==
    /\ now' = now + d
    /\ timer' = IF wpc = "sleep" THEN [timer EXCEPT !.ran = @ + 1] ELSE timer

loop_download_call ==
    /\ dl = <<>>
    /\ \E mk \in {"ok", "OSError"} : DlStart(1, "async", UrlA, "t1", root, mk)
    /\ \E d \in StepTimes : LoopRan(d)
    /\ UNCHANGED <<root, retry_vars, search_vars, task_vars>>
    /\ UNCHANGED app_vars

loop_download_response ==
    /\ \E id \in DOMAIN dl, resp \in FullResponses, op \in {"ok", "OSError"} :
          DlResponse(id, resp, op)
    /\ \E d \in StepTimes : LoopRan(d)
    /\ UNCHANGED <<root, retry_vars, search_vars, task_vars>>
    /\ UNCHANGED app_vars

loop_download_chunk ==
    /\ \E id \in DOMAIN dl, io \in {"ok", "ClientPayloadError"} : DlChunk(id, io)
    /\ \E d \in StepTimes : LoopRan(d)
    /\ UNCHANGED <<root, retry_vars, search_vars, task_vars>>
    /\ UNCHANGED app_vars

InitLoop ==
    /\ \E mr \in 0..MaxRetriesBound, d \in Delays, b \in Backoffs,
          excs \in ExceptionTuples :
            WrapperEntered("async", mr, d, b, excs)
    /\ SearchIdle
    /\ root = SearchOutput
    /\ dl = <<>>
    /\ fs = <<>>
    /\ log = {}
    /\ LoopStarted
    /\ AppIdle

NextLoop ==
    \/ wrapper_try
    \/ wrapper_return_none
    \/ wrapper_return
    \/ wrapper_propagate
    \/ wrapper_raise
    \/ retry_on_exception_async_sleep
    \/ retry_on_exception_async_resume
    \/ op_return
    \/ op_raise
    \/ loop_download_call
    \/ loop_download_response
    \/ loop_download_chunk

SpecLoop == InitLoop /\ [][NextLoop]_vars

(***************************************************************************)
(* Claims about the scheduling of the waits, checked under SpecLoop.       *)
(***************************************************************************)
\* The step that asks for the wait hands the thread back at once and leaves
\* the task suspended on a timer for the delay.
C15_Suspends ==
    Len(sleeps') > Len(sleeps) =>
        /\ wpc' = "sleep"
        /\ now' = now
        /\ attempt' = attempt
        /\ timer'.set_at = now /\ timer'.due = now + Last(sleeps').secs

\* The next attempt starts from the suspended state, not before the delay
\* has gone by since the wait was asked for.
C15_ResumesAfterDelay ==
    attempt' > attempt =>
        /\ wpc = "sleep"
        /\ now' >= timer.set_at + Last(sleeps).secs

\* While the task is suspended, a task that has a step to take can take it.
C15_OthersEnabled ==
    /\ (wpc = "sleep" /\ dl = <<>>) => ENABLED loop_download_call
    /\ (wpc = "sleep" /\ \E id \in DOMAIN dl : dl[id].pc = "get")
          => ENABLED loop_download_response
    /\ (wpc = "sleep" /\ \E id \in DOMAIN dl : dl[id].pc = "write")
          => ENABLED loop_download_chunk

\* C15: a wait of retry_on_exception_async suspends the task without keeping
\* the thread, other tasks of the loop can take steps during it, and the next
\* attempt starts only when the delay has gone by.
C15_CooperativeWait ==
    /\ [][C15_Suspends /\ C15_ResumesAfterDelay]_vars
    /\ []C15_OthersEnabled

C15_Witness ==
    /\ wpc = "sleep"
    /\ timer.ran >= 2
    /\ now < timer.due
    /\ \E id \in DOMAIN dl : dl[id].pc = "write"


(***************************************************************************)
(* Claims about the suspension points of the search, checked under Spec.   *)
(***************************************************************************)
\* The step of the search that issues the request ends there: the response
\* is not yet handled, so the task is suspended with its request in flight.
SearchRequestSuspends ==
    Len(requests') > Len(requests) =>
        /\ execs' = execs
        /\ tweets' = tweets
        /\ ttask' = ttask

\* The step of a download that issues the request ends awaiting the response
\* (a call that failed before its request has returned None instead).
DownloadRequestSuspends ==
    \A id \in DOMAIN dl' :
        id \notin DOMAIN dl => dl'[id].pc \in {"get", "returned"}

\* C16: every network request of the fetch layer is a suspension point: the
\* step that issues it gives the thread back before the response is handled.
C16_RequestsSuspend == [][SearchRequestSuspends /\ DownloadRequestSuspends]_vars


(***************************************************************************)
(* SpecLLM: the construction of a LocalLLM (local_lang.py) against the     *)
(* model lists the two backends serve (config.py), and its first use.      *)
(***************************************************************************)
ModelNames == {"llama3", "mixtral", "gpt-x"}
OllamaLists == {{}, {"llama3"}}
GroqLists == {{}, {"mixtral"}, {"mixtral", "llama3"}}

GroqListRequest == "GET GROQ_BASE_URL/models"
OllamaListRequest == "GET OLLAMA_BASE_URL/api/tags"
GenerateRequest == "POST generate"

\* A selection that falls back to the local backend.
SelectPlatformFallback(name, ollama_models, groq_models) ==
    IF name \in groq_models /\ name \notin ollama_models THEN "groq" ELSE "ollama"

\* A selection that asks the hosted list first.
SelectPlatformGroqFirst(name, ollama_models, groq_models) ==
    IF name \in groq_models THEN "groq"
    ELSE IF name \in ollama_models THEN "ollama"
    ELSE "ValueError"

\* _get_llm_model: `if self.base_model in ollama_models ... elif self.base_model
\* in groq_models ... else: raise ValueError(...)`
SelectPlatform(name, ollama_models, groq_models) ==
    IF name \in ollama_models THEN "ollama"
    ELSE IF name \in groq_models THEN "groq"
    ELSE "ValueError"

\* LocalLLM(config, base_model): __init__ calls _get_llm_model, which starts
\* with config.models_list().  env says which base URLs are set; served is
\* what each backend would list.
LocalLLM_init ==
    /\ llm.pc = "none"
    /\ \E name \in ModelNames, gu \in BOOLEAN, ou \in BOOLEAN,
          gl \in GroqLists, ol \in OllamaLists :
          llm' = [pc |-> "groq", base_model |-> name,
                  env |-> [groq_url |-> gu, ollama_url |-> ou],
                  served |-> [groq |-> gl, ollama |-> ol],
                  net |-> <<>>, groq_models |-> {}, ollama_models |-> {},
                  platform |-> None, err |-> NoErr.kind]
    /\ UNCHANGED <<retry_vars, rest_vars, loop_vars, meta, norm, more_vars>>

\* What a request for a model list can end in: status 200, another status
\* (the code raises Exception) or no response (requests raises).
ListOutcomes == {"200", "Exception", "ConnectionError"}

\* ModelConfig._groq_models: the URL is built (None + "/models" is a
\* TypeError), requests.get is called, the ids are read from the answer.
groq_models ==
    /\ llm.pc = "groq"
    /\ IF ~llm.env.groq_url
       THEN llm' = [llm EXCEPT !.pc = "raised", !.err = "TypeError"]
       ELSE \E r \in ListOutcomes :
              llm' = IF r = "200"
                     THEN [llm EXCEPT !.pc = "ollama",
                                      !.net = Append(@, GroqListRequest),
                                      !.groq_models = llm.served.groq]
                     ELSE [llm EXCEPT !.pc = "raised", !.err = r,
                                      !.net = Append(@, GroqListRequest)]
    /\ UNCHANGED <<retry_vars, rest_vars, loop_vars, meta, norm, more_vars>>

\* ModelConfig._ollama_models, the same for the local backend; _yolo_models
\* reads the environment only.
ollama_models ==
    /\ llm.pc = "ollama"
    /\ IF ~llm.env.ollama_url
       THEN llm' = [llm EXCEPT !.pc = "raised", !.err = "TypeError"]
       ELSE \E r \in ListOutcomes :
              llm' = IF r = "200"
                     THEN [llm EXCEPT !.pc = "select",
                                      !.net = Append(@, OllamaListRequest),
                                      !.ollama_models = llm.served.ollama]
                     ELSE [llm EXCEPT !.pc = "raised", !.err = r,
                                      !.net = Append(@, OllamaListRequest)]
    /\ UNCHANGED <<retry_vars, rest_vars, loop_vars, meta, norm, more_vars>>

\* The rest of _get_llm_model: the platform is chosen or ValueError raised.
get_llm_model ==
    /\ llm.pc = "select"
    /\ LET p == SelectPlatform(llm.base_model, llm.ollama_models, llm.groq_models)
       IN  llm' = IF p = "ValueError"
                  THEN [llm EXCEPT !.pc = "raised", !.err = "ValueError"]
                  ELSE [llm EXCEPT !.pc = "ready", !.platform = p]
    /\ UNCHANGED <<retry_vars, rest_vars, loop_vars, meta, norm, more_vars>>

\* The error of generate's last branch.
UnknownModelPlatform == "ValueError: Unknown model platform"

\* generate() on a constructed object: `if self.model_platform == "ollama"
\* ... elif self.model_platform == "groq" ...` is one requests.post to the
\* backend, `else: raise ValueError(f"Unknown model platform: ...")`.
generate ==
    /\ llm.pc = "ready"
    /\ llm' = IF llm.platform \in {"ollama", "groq"}
              THEN [llm EXCEPT !.pc = "used", !.net = Append(@, GenerateRequest)]
              ELSE [llm EXCEPT !.pc = "raised", !.err = UnknownModelPlatform]
    /\ UNCHANGED <<retry_vars, rest_vars, loop_vars, meta, norm, more_vars>>

InitLLM ==
    /\ WrapperEntered("async", 0, 0, 0, {})
    /\ SearchIdle
    /\ DownloadIdle
    /\ LoopStarted
    /\ AppIdle

NextLLM ==
    \/ LocalLLM_init
    \/ groq_models
    \/ ollama_models
    \/ get_llm_model
    \/ generate

SpecLLM == InitLLM /\ [][NextLLM]_vars

(***************************************************************************)
(* Claims about the selection of the backend, checked under SpecLLM.       *)
(***************************************************************************)
Constructing == llm.pc \in {"groq", "ollama", "select"}
ConstructionEnded == llm.pc \in {"ready", "used", "raised"}
InNeitherList ==
    llm.pc # "none" /\ llm.base_model \notin (llm.served.groq \cup llm.served.ollama)

\* C17 as stated: with a model name that neither backend lists, the
\* construction makes no network call and ends in ValueError.
C17_NoNetworkCall ==
    InNeitherList =>
        /\ llm.net = <<>>
        /\ ConstructionEnded => (llm.pc = "raised" /\ llm.err = "ValueError")

\* C17, amended: with a model name that neither backend lists, the
\* construction never yields an object and makes no generation request; it
\* asks each backend for its list, in the order hosted then local, and ends
\* in ValueError when both have answered; when a base URL is missing or a
\* list request fails it ends in that error instead.
C17_UnknownModelRejected ==
    InNeitherList =>
        /\ llm.pc \notin {"ready", "used"}
        /\ llm.platform = None
        /\ \A k \in 1..Len(llm.net) : llm.net[k] # GenerateRequest
        /\ llm.pc = "raised" =>
              \/ /\ llm.err = "ValueError"
                 /\ llm.net = <<GroqListRequest, OllamaListRequest>>
              \/ /\ llm.err = "TypeError"
                 /\ \/ ~llm.env.groq_url /\ llm.net = <<>>
                    \/ ~llm.env.ollama_url /\ llm.net = <<GroqListRequest>>
              \/ /\ llm.err \in {"Exception", "ConnectionError"}
                 /\ llm.net \in {<<GroqListRequest>>, <<GroqListRequest, OllamaListRequest>>}
        /\ (llm.pc = "raised" /\ llm.net = <<GroqListRequest, OllamaListRequest>>
                              /\ llm.groq_models = llm.served.groq
                              /\ llm.ollama_models = llm.served.ollama
                              /\ llm.err \notin {"Exception", "ConnectionError"})
              => llm.err = "ValueError"

C17_Witness ==
    /\ llm.pc = "raised"
    /\ llm.base_model = "gpt-x"
    /\ llm.served = [groq |-> {"mixtral"}, ollama |-> {"llama3"}]
    /\ llm.err = "ValueError"
    /\ llm.net = <<GroqListRequest, OllamaListRequest>>


\* The platform is assigned by the selection step of the construction only.
PlatformChosenAtConstruction ==
    llm.pc \in {"ready", "used", "raised"} => llm'.platform = llm.platform

\* What the selection leaves in a constructed object.
BackendChosen ==
    /\ llm.pc \in {"ready", "used"} =>
          /\ llm.platform \in {"ollama", "groq"}
          /\ llm.base_model \in llm.ollama_models => llm.platform = "ollama"
          /\ (llm.base_model \in llm.groq_models
                /\ llm.base_model \notin llm.ollama_models) => llm.platform = "groq"
    /\ llm.pc # "none" => llm.err # UnknownModelPlatform
    /\ llm.pc \in {"groq", "ollama", "select"} => llm.platform = None

\* C24: the backend is chosen once, at construction: a name in the local
\* list selects the local backend even when the hosted list has it too, a
\* name only in the hosted list selects the hosted backend; a constructed
\* object has platform 'ollama' or 'groq', no later step changes it, and
\* generate never ends in its 'Unknown model platform' error.
C24_BackendChosenOnce == []BackendChosen /\ [][PlatformChosenAtConstruction]_vars

C24_Witness ==
    /\ llm.pc = "used"
    /\ llm.base_model = "llama3"
    /\ llm.base_model \in llm.ollama_models \cap llm.groq_models
    /\ llm.platform = "ollama"


(***************************************************************************)
(* SpecStore: a batch is written by save_metadata (file_utils.py) and read *)
(* back by load_tweet_data (ai_run.py).  Text is a sequence of code        *)
(* points, a file holds bytes.                                             *)
(***************************************************************************)
\* The values of a record: text, numbers and None.
StrValue(cps) == [t |-> "str", s |-> cps, n |-> 0]
IntValue(n) == [t |-> "int", s |-> <<>>, n |-> n]
NoneValue == [t |-> "none", s |-> <<>>, n |-> 0]

\* "hello", "é" (U+00E9) and "Á" (U+00C1)
TextHello == StrValue(<<104, 101, 108, 108, 111>>)
TextEAcute == StrValue(<<233>>)
TextAAcute == StrValue(<<193>>)

\* A dict is the set of its <<key, value>> pairs; {} is the empty dict.
StoreRecords ==
    {{},
     {<<"id", StrValue(<<49>>)>>, <<"text", TextHello>>},
     {<<"id", IntValue(2)>>, <<"text", TextEAcute>>},
     {<<"id", NoneValue>>, <<"text", TextAAcute>>}}

\* str.encode("utf-8"), for code points below U+10000
RECURSIVE Utf8Encode(_)
Utf8Encode(cps) ==
    IF cps = <<>> THEN <<>>
    ELSE LET c == cps[1]
             head == IF c < 128 THEN <<c>>
                     ELSE IF c < 2048 THEN <<192 + (c \div 64), 128 + (c % 64)>>
                     ELSE <<224 + (c \div 4096), 128 + ((c \div 64) % 64), 128 + (c % 64)>>
         IN  head \o Utf8Encode(Tail(cps))

Undecodable == [ok |-> FALSE, s |-> <<>>]
Decoded(cps) == [ok |-> TRUE, s |-> cps]
Prepend(c, d) == IF d.ok THEN Decoded(<<c>> \o d.s) ELSE Undecodable
IsContinuation(b) == b >= 128 /\ b < 192

\* bytes.decode("utf-8")
RECURSIVE Utf8Decode(_)
Utf8Decode(bs) ==
    IF bs = <<>> THEN Decoded(<<>>)
    ELSE LET b == bs[1]
         IN  IF b < 128 THEN Prepend(b, Utf8Decode(Tail(bs)))
             ELSE IF b >= 192 /\ b < 224 /\ Len(bs) >= 2 /\ IsContinuation(bs[2])
                  THEN Prepend((b - 192) * 64 + (bs[2] - 128),
                               Utf8Decode(SubSeq(bs, 3, Len(bs))))
             ELSE IF /\ b >= 224 /\ b < 240 /\ Len(bs) >= 3
                     /\ IsContinuation(bs[2]) /\ IsContinuation(bs[3])
                  THEN Prepend((b - 224) * 4096 + (bs[2] - 128) * 64 + (bs[3] - 128),
                               Utf8Decode(SubSeq(bs, 4, Len(bs))))
             ELSE Undecodable

\* The bytes 0x80..0x9F of cp1252: five are undefined, the others are
\* punctuation and letters above U+0100.
Cp1252Undefined == {129, 141, 143, 144, 157}
Cp1252High ==
    [b \in (128..159) \ Cp1252Undefined |->
        CASE b = 128 -> 8364 [] b = 130 -> 8218 [] b = 131 -> 402  [] b = 132 -> 8222
          [] b = 133 -> 8230 [] b = 134 -> 8224 [] b = 135 -> 8225 [] b = 136 -> 710
          [] b = 137 -> 8240 [] b = 138 -> 352  [] b = 139 -> 8249 [] b = 140 -> 338
          [] b = 142 -> 381  [] b = 145 -> 8216 [] b = 146 -> 8217 [] b = 147 -> 8220
          [] b = 148 -> 8221 [] b = 149 -> 8226 [] b = 150 -> 8211 [] b = 151 -> 8212
          [] b = 152 -> 732  [] b = 153 -> 8482 [] b = 154 -> 353  [] b = 155 -> 8250
          [] b = 156 -> 339  [] b = 158 -> 382  [] b = 159 -> 376]

\* bytes.decode("cp1252")
RECURSIVE Cp1252Decode(_)
Cp1252Decode(bs) ==
    IF bs = <<>> THEN Decoded(<<>>)
    ELSE LET b == bs[1]
         IN  IF b \in Cp1252Undefined THEN Undecodable
             ELSE Prepend(IF b >= 128 /\ b < 160 THEN Cp1252High[b] ELSE b,
                          Cp1252Decode(Tail(bs)))

\* The encoding open(path, 'r') takes when none is given: the one of the
\* platform's locale.
LocaleEncodings == {"utf-8", "cp1252"}

Decode(enc, bs) == IF enc = "utf-8" THEN Utf8Decode(bs) ELSE Cp1252Decode(bs)

\* json.dump(..., ensure_ascii=False) into a file opened with
\* encoding="utf-8": the text of every string, as bytes.  Numbers, None and
\* the keys used here are ASCII and are the same bytes in both encodings.
SerValue(v) == IF v.t = "str" THEN [v EXCEPT !.s = Utf8Encode(v.s)] ELSE v
SerDict(d) == {<<p[1], SerValue(p[2])>> : p \in d}

\* json.load over the text the reader's encoding makes of the bytes
DictDecodable(enc, d) == \A p \in d : p[2].t = "str" => Decode(enc, p[2].s).ok
ParseValue(enc, v) == IF v.t = "str" THEN [v EXCEPT !.s = Decode(enc, v.s).s] ELSE v
ParseDict(enc, d) == {<<p[1], ParseValue(enc, p[2])>> : p \in d}

MetadataPath == "output/metadata.json"

NoFile == [exists |-> FALSE, kind |-> "none", items |-> <<>>, complete |-> FALSE]
Truncated(kind) == [exists |-> TRUE, kind |-> kind, items |-> <<>>, complete |-> FALSE]
Document(kind, items) == [exists |-> TRUE, kind |-> kind, items |-> items, complete |-> TRUE]

\* What the path holds before the call: nothing, the batch of an earlier
\* run, or a JSON document that is neither a list nor an object.
PreviousFiles ==
    {NoFile,
     Document("list", <<SerDict({<<"id", StrValue(<<49>>)>>, <<"text", TextHello>>})>>),
     Document("string", <<>>)}

ListData(items) == [kind |-> "list", items |-> items]
DictData(d) == [kind |-> "dict", items |-> <<d>>]

RECURSIVE StoreBatches(_)
StoreBatches(n) ==
    IF n = 0 THEN {<<>>}
    ELSE StoreBatches(n - 1) \cup {Append(b, r) : b \in {x \in StoreBatches(n - 1) : Len(x) = n - 1},
                                             r \in StoreRecords}

StoreData == {ListData(b) : b \in StoreBatches(MaxRecords)} \cup {DictData(d) : d \in StoreRecords}

Loaded(items) == [err |-> NoErr.kind, items |-> items]
LoadRaised(kind) == [err |-> kind, items |-> <<>>]

\* load_tweet_data: open(metadata_path, 'r'), json.load, then the type of
\* the document decides.
LoadTweetData(file, enc) ==
    IF ~file.exists THEN LoadRaised("FileNotFoundError")
    ELSE IF \E k \in 1..Len(file.items) : ~DictDecodable(enc, file.items[k])
         THEN LoadRaised("UnicodeDecodeError")
    ELSE IF ~file.complete THEN LoadRaised("JSONDecodeError")
    ELSE IF file.kind = "list"
         THEN Loaded([k \in 1..Len(file.items) |-> ParseDict(enc, file.items[k])])
    ELSE IF file.kind = "dict" THEN Loaded(<<ParseDict(enc, file.items[1])>>)
    ELSE LoadRaised("ValueError")

StoreOutcomes == {"ok", "OSError"}

\* save_metadata up to open(output, "w"): mkdir and open may fail, and a
\* successful open leaves the file empty.
save_metadata_open(io) ==
    /\ meta.pc = "save"
    /\ IF io = "ok"
       THEN meta' = [meta EXCEPT !.pc = "dump", !.file = Truncated(meta.data.kind)]
       ELSE meta' = [meta EXCEPT !.pc = "saved", !.saved = None, !.err = io]
    /\ UNCHANGED <<retry_vars, rest_vars, loop_vars, llm, norm, more_vars>>

\* json.dump writes the document piece by piece; the file is closed, and
\* the path returned, once the last piece is out.
save_metadata_dump(io) ==
    /\ meta.pc = "dump"
    /\ IF io # "ok"
       THEN meta' = [meta EXCEPT !.pc = "saved", !.saved = None, !.err = io]
       ELSE IF Len(meta.file.items) < Len(meta.data.items)
            THEN meta' = [meta EXCEPT !.file.items =
                             Append(@, SerDict(meta.data.items[Len(@) + 1]))]
            ELSE meta' = [meta EXCEPT !.pc = "saved", !.file.complete = TRUE,
                                      !.saved = MetadataPath]
    /\ UNCHANGED <<retry_vars, rest_vars, loop_vars, llm, norm, more_vars>>

load_tweet_data ==
    /\ meta.pc = "saved"
    /\ meta' = [meta EXCEPT !.pc = "loaded",
                            !.loaded = LoadTweetData(meta.file, meta.enc)]
    /\ UNCHANGED <<retry_vars, rest_vars, loop_vars, llm, norm, more_vars>>

InitStore ==
    /\ WrapperEntered("async", 0, 0, 0, {})
    /\ SearchIdle
    /\ DownloadIdle
    /\ LoopStarted
    /\ llm = NoLLM
    /\ norm = NoNorm
    /\ MoreIdle
    /\ \E data \in StoreData, enc \in LocaleEncodings, file \in PreviousFiles :
          meta = [pc |-> "save", data |-> data, enc |-> enc, file |-> file,
                  saved |-> None, err |-> NoErr.kind, loaded |-> Loaded(<<>>)]

NextStore ==
    \/ \E io \in StoreOutcomes : save_metadata_open(io)
    \/ \E io \in StoreOutcomes : save_metadata_dump(io)
    \/ load_tweet_data

SpecStore == InitStore /\ [][NextStore]_vars

\* C18: a batch that save_metadata stored and load_tweet_data reads back is
\* the batch that was stored: the same records with the same fields.
C18_RoundTrip ==
    (meta.pc = "loaded" /\ meta.saved = MetadataPath /\ meta.data.kind = "list")
        => (meta.loaded = Loaded(meta.data.items))


(***************************************************************************)
(* Persisted files, checked under SpecDownload.                            *)
(***************************************************************************)
\* The body of the response a call is writing, whole.
WholeBody(c) == [k \in 1..c.total |-> <<c.url, k>>]

\* C19: a step that changes a persisted file replaces it as a whole: after
\* the step the destination holds what it held before or the complete new
\* content, never a part of it.
C19_WholeFileReplacement ==
    [][\A p \in DOMAIN fs' :
          \/ p \in DOMAIN fs /\ fs'[p] = fs[p]
          \/ \E id \in DOMAIN dl' : /\ dl'[id].path = p
                                    /\ dl'[id].pc = "write"
                                    /\ fs'[p] = WholeBody(dl'[id])]_vars


(***************************************************************************)
(* SpecNormalize: the convert_* functions of helpers.py, each applied to   *)
(* one argument.  A Python value is its type, its text (of a str, an int   *)
(* or, for an object, what str() makes of it), its attributes or items     *)
(* (object, dict) and its elements (list, tuple).                          *)
(***************************************************************************)
PyNone == [ty |-> "NoneType", text |-> "None", attrs |-> {}, elems |-> <<>>]
PyStr(s) == [ty |-> "str", text |-> s, attrs |-> {}, elems |-> <<>>]
PyInt(s) == [ty |-> "int", text |-> s, attrs |-> {}, elems |-> <<>>]
PyList(es) == [ty |-> "list", text |-> "", attrs |-> {}, elems |-> es]
PyTuple(es) == [ty |-> "tuple", text |-> "", attrs |-> {}, elems |-> es]
PyDict(items) == [ty |-> "dict", text |-> "", attrs |-> items, elems |-> <<>>]
\* An instance of a pytwitter model (a dataclass: it has a __dict__), and an
\* instance of a class with __slots__ (it has none).
PyObj(cls, fields) == [ty |-> "object", text |-> cls, attrs |-> fields, elems |-> <<>>]
PySlots(cls, fields) == [ty |-> "slots", text |-> cls, attrs |-> fields, elems |-> <<>>]

\* bool(x), as `not x` and `if x` take it
TruthyAlways(x) == TRUE
Truthy(x) ==
    CASE x.ty = "NoneType" -> FALSE
      [] x.ty = "str" -> x.text # ""
      [] x.ty = "int" -> x.text # "0"
      [] x.ty \in {"list", "tuple"} -> x.elems # <<>>
      [] x.ty = "dict" -> x.attrs # {}
      [] OTHER -> TRUE

HasDunderDict(x) == x.ty = "object"
HasAttr(x, name) == x.ty \in {"object", "slots"} /\ \E p \in x.attrs : p[1] = name
GetAttr(x, name, default) ==
    IF HasAttr(x, name) THEN (CHOOSE p \in x.attrs : p[1] = name)[2] ELSE default

\* k.startswith('_'), for the attribute names of the model
Private(k) == k \in {"_raw"}
\* {k: v for k, v in x.__dict__.items() if not k.startswith('_')}
PublicDict(x) == PyDict({p \in x.attrs : ~Private(p[1])})

\* str(x)
PyStrOf(x) == IF x.ty = "str" THEN x ELSE PyStr(x.text)

\* What `for e in x` and list(x) go through; a str argument of the model
\* has one character at most.
Iterable(x) == x.ty \in {"list", "tuple", "dict", "str"}
SetToSeq(S) ==
    CHOOSE f \in [1..Cardinality(S) -> S] : \A i, j \in 1..Cardinality(S) : i # j => f[i] # f[j]
Iter(x) ==
    CASE x.ty \in {"list", "tuple"} -> x.elems
      [] x.ty = "dict" -> LET keys == SetToSeq({p[1] : p \in x.attrs})
                          IN  [i \in 1..Len(keys) |-> PyStr(keys[i])]
      [] x.ty = "str" -> IF x.text = "" THEN <<>> ELSE <<x>>
      [] OTHER -> <<>>

NormReturned(v) == [raised |-> NoErr.kind, value |-> v]
NormRaised(kind) == [raised |-> kind, value |-> PyNone]

\* dict(metrics) inside try/except: a dict is copied, an empty iterable
\* gives {}, and the elements of the other iterables of the model are not
\* pairs, so dict() raises and the handler returns {}.
DictOrEmpty(x) == IF x.ty = "dict" THEN x ELSE PyDict({})

Counts(x, names) == PyDict({<<n, GetAttr(x, n, PyInt("0"))>> : n \in names})

convert_public_metrics_to_dict(metrics) ==
    IF ~Truthy(metrics) THEN NormReturned(PyDict({}))
    ELSE IF HasDunderDict(metrics) THEN NormReturned(PublicDict(metrics))
    ELSE IF HasAttr(metrics, "like_count")
         THEN NormReturned(Counts(metrics, {"like_count", "retweet_count", "reply_count",
                                            "quote_count", "bookmark_count",
                                            "impression_count"}))
    ELSE IF HasAttr(metrics, "followers_count")
         THEN NormReturned(Counts(metrics, {"followers_count", "following_count",
                                            "tweet_count", "listed_count"}))
    ELSE IF HasAttr(metrics, "view_count")
         THEN NormReturned(Counts(metrics, {"view_count"}))
    ELSE NormReturned(IF Iterable(metrics) THEN DictOrEmpty(metrics) ELSE PyDict({}))

EntityTypes == {"annotations", "cashtags", "hashtags", "mentions", "urls"}

\* One element of a list: its public attributes, or its str().
DictOrStr(e) == IF HasDunderDict(e) THEN PublicDict(e) ELSE PyStrOf(e)

convert_entities_to_dict(entities) ==
    IF ~Truthy(entities) THEN NormReturned(PyDict({}))
    ELSE LET present == {t \in EntityTypes :
                            HasAttr(entities, t) /\ Truthy(GetAttr(entities, t, PyList(<<>>)))}
         IN  IF \E t \in present : ~Iterable(GetAttr(entities, t, PyList(<<>>)))
             THEN NormRaised("TypeError")
             ELSE NormReturned(PyDict(
                    {<<t, LET es == Iter(GetAttr(entities, t, PyList(<<>>)))
                          IN  PyList([i \in 1..Len(es) |-> DictOrStr(es[i])])>> : t \in present}))

\* The domain or the entity of a context annotation.
AnnotationPart(annotation, name) ==
    LET part == GetAttr(annotation, name, PyNone)
    IN  IF HasAttr(annotation, name) /\ Truthy(part) THEN DictOrStr(part) ELSE PyNone

convert_context_annotations_to_list(annotations) ==
    IF ~Truthy(annotations) THEN NormReturned(PyList(<<>>))
    ELSE IF ~Iterable(annotations) THEN NormRaised("TypeError")
    ELSE LET es == Iter(annotations)
         IN  NormReturned(PyList(
               [i \in 1..Len(es) |->
                   IF HasDunderDict(es[i])
                   THEN PyDict({<<"domain", AnnotationPart(es[i], "domain")>>,
                                <<"entity", AnnotationPart(es[i], "entity")>>})
                   ELSE PyStrOf(es[i])]))

\* {name: getattr(e, name, None) for the names}, or str(e)
Fields(e, names) ==
    IF HasDunderDict(e) THEN PyDict({<<n, GetAttr(e, n, PyNone)>> : n \in names})
    ELSE PyStrOf(e)

convert_referenced_tweets_to_list(referenced_tweets) ==
    IF ~Truthy(referenced_tweets) THEN NormReturned(PyList(<<>>))
    ELSE IF ~Iterable(referenced_tweets) THEN NormRaised("TypeError")
    ELSE LET es == Iter(referenced_tweets)
         IN  NormReturned(PyList([i \in 1..Len(es) |-> Fields(es[i], {"type", "id"})]))

AttachmentNames == {"media_keys", "poll_ids", "media_source_tweet_id"}

convert_attachments_to_dict(attachments) ==
    IF ~Truthy(attachments) THEN NormReturned(PyDict({}))
    ELSE LET present == {n \in AttachmentNames : HasAttr(attachments, n)}
             Filled(n) == Truthy(GetAttr(attachments, n, PyNone))
         IN  IF \E n \in present : Filled(n) /\ ~Iterable(GetAttr(attachments, n, PyNone))
             THEN NormRaised("TypeError")
             ELSE NormReturned(PyDict(
                    {<<n, IF Filled(n) THEN PyList(Iter(GetAttr(attachments, n, PyNone)))
                          ELSE PyList(<<>>)>> : n \in present}))

convert_media_variants_to_list(variants) ==
    IF ~Truthy(variants) THEN NormReturned(PyList(<<>>))
    ELSE IF ~Iterable(variants) THEN NormRaised("TypeError")
    ELSE LET es == Iter(variants)
         IN  NormReturned(PyList([i \in 1..Len(es) |->
                                     Fields(es[i], {"bit_rate", "content_type", "url"})]))

\* The arguments: what the API leaves out or leaves empty, and what it
\* fills in.
EmptyArgs == {PyNone, PyList(<<>>), PyTuple(<<>>), PyDict({}), PyStr(""), PyInt("0")}

TweetMetrics == PyObj("TweetPublicMetrics", {<<"like_count", PyInt("3")>>, <<"_raw", PyInt("0")>>})
SlotMetrics == PySlots("TweetPublicMetrics", {<<"like_count", PyInt("3")>>})
UserMetrics == PySlots("UserPublicMetrics", {<<"followers_count", PyInt("8")>>})
MediaMetrics == PySlots("MediaPublicMetrics", {<<"view_count", PyInt("2")>>})
Hashtag == PyObj("Hashtag", {<<"tag", PyStr("tla")>>})
TweetEntities ==
    PyObj("TweetEntities", {<<"hashtags", PyList(<<Hashtag, PyStr("plus")>>)>>,
                            <<"urls", PyNone>>, <<"mentions", PyList(<<>>)>>})
BlankEntities == PyObj("TweetEntities", {<<"hashtags", PyNone>>, <<"urls", PyNone>>})
AnnotationDomain == PyObj("AnnotationDomain", {<<"id", PyStr("46")>>, <<"name", PyStr("Brand")>>})
Annotations ==
    PyList(<<PyObj("ContextAnnotation", {<<"domain", AnnotationDomain>>, <<"entity", PyNone>>}),
             PyStr("note")>>)
ReferencedTweets ==
    PyList(<<PyObj("TweetReferencedTweet", {<<"type", PyStr("retweeted")>>, <<"id", PyStr("9")>>})>>)
TweetAttachments ==
    PyObj("TweetAttachments", {<<"media_keys", PyList(<<PyStr("m1")>>)>>, <<"poll_ids", PyNone>>})
BlankAttachments ==
    PyObj("TweetAttachments", {<<"media_keys", PyNone>>, <<"poll_ids", PyNone>>})
BrokenAttachments == PyObj("TweetAttachments", {<<"media_keys", PyInt("5")>>})
Variants ==
    PyTuple(<<PyObj("MediaVariant", {<<"bit_rate", PyInt("832000")>>,
                                     <<"content_type", PyStr("video/mp4")>>,
                                     <<"url", PyStr("https://video.twimg.com/v.mp4")>>})>>)

FilledArgs ==
    {TweetMetrics, SlotMetrics, UserMetrics, MediaMetrics, TweetEntities, BlankEntities,
     Annotations, ReferencedTweets, TweetAttachments, BlankAttachments, BrokenAttachments,
     Variants, PyDict({<<"like_count", PyInt("1")>>}), PyInt("7"), PyStr("x")}

NormArgs == EmptyArgs \cup FilledArgs

\* The call of fn on the argument, to its return or its exception.
Normalized(fn, result) ==
    /\ norm.pc = "arg"
    /\ norm' = [norm EXCEPT !.pc = "done", !.fn = fn, !.result = result]
    /\ UNCHANGED <<retry_vars, rest_vars, loop_vars, llm, meta, more_vars>>

public_metrics_call == Normalized("convert_public_metrics_to_dict",
                                  convert_public_metrics_to_dict(norm.arg))
entities_call == Normalized("convert_entities_to_dict", convert_entities_to_dict(norm.arg))
context_annotations_call == Normalized("convert_context_annotations_to_list",
                                       convert_context_annotations_to_list(norm.arg))
referenced_tweets_call == Normalized("convert_referenced_tweets_to_list",
                                     convert_referenced_tweets_to_list(norm.arg))
attachments_call == Normalized("convert_attachments_to_dict",
                               convert_attachments_to_dict(norm.arg))
media_variants_call == Normalized("convert_media_variants_to_list",
                                  convert_media_variants_to_list(norm.arg))

InitNormalize ==
    /\ WrapperEntered("async", 0, 0, 0, {})
    /\ SearchIdle
    /\ DownloadIdle
    /\ LoopStarted
    /\ llm = NoLLM
    /\ meta = NoMeta
    /\ MoreIdle
    /\ \E arg \in NormArgs :
          norm = [pc |-> "arg", arg |-> arg, fn |-> "", result |-> NormReturned(PyNone)]

NextNormalize ==
    \/ public_metrics_call
    \/ entities_call
    \/ context_annotations_call
    \/ referenced_tweets_call
    \/ attachments_call
    \/ media_variants_call

SpecNormalize == InitNormalize /\ [][NextNormalize]_vars

DictFunctions == {"convert_public_metrics_to_dict", "convert_entities_to_dict",
                  "convert_attachments_to_dict"}

\* C20: applied to None or to an empty collection, each convert_* function
\* returns the empty dict (the *_to_dict functions) or the empty list (the
\* *_to_list functions), and raises nothing.
C20_EmptyInEmptyOut ==
    (norm.pc = "done" /\ norm.arg \in {PyNone, PyList(<<>>), PyTuple(<<>>), PyDict({})})
        => /\ norm.result.raised = NoErr.kind
           /\ norm.result.value = IF norm.fn \in DictFunctions THEN PyDict({}) ELSE PyList(<<>>)

C20_Witness ==
    /\ norm.pc = "done"
    /\ norm.arg = PyNone
    /\ norm.fn = "convert_context_annotations_to_list"
    /\ norm.result = NormReturned(PyList(<<>>))


(***************************************************************************)
(* SpecTwin: one download made twice, by download_media and then by        *)
(* download_media_async, with the same arguments and against the same      *)
(* server and file system: the outcome of mkdir, the response, the outcome *)
(* of open and the step at which the body or the disk fails are fixed at   *)
(* the start.                                                              *)
(***************************************************************************)
FileAt(p) ==
    IF p \in DOMAIN fs THEN [exists |-> TRUE, bytes |-> fs[p]]
    ELSE [exists |-> FALSE, bytes |-> <<>>]

NoSnapshot == [taken |-> FALSE, file |-> [exists |-> FALSE, bytes |-> <<>>]]

\* The outcome of the k-th read-and-write of the body.
TwinIo(k) == IF k = twin.fail_at THEN twin.fail_kind ELSE "ok"

TwinRest == <<retry_vars, search_vars, task_vars, loop_vars, llm, meta, norm, lg, byurl, vision>>

download_media_twin ==
    /\ twin.pc = "run"
    /\ dl = <<>>
    /\ DlStart(1, "sync", twin.url, twin.tid, root, twin.mk)
    /\ UNCHANGED <<root, twin>>
    /\ UNCHANGED TwinRest

\* The second call starts when the first has returned; what the first left
\* in its destination is kept for the comparison.
download_media_async_twin ==
    /\ twin.pc = "run"
    /\ DOMAIN dl = {1}
    /\ Finished(dl[1])
    /\ DlStart(2, "async", twin.url, twin.tid, root, twin.mk)
    /\ twin' = [twin EXCEPT !.first = [taken |-> TRUE, file |-> FileAt(dl[1].path)]]
    /\ UNCHANGED root
    /\ UNCHANGED TwinRest

twin_response ==
    /\ \E id \in DOMAIN dl : DlResponse(id, twin.resp, twin.op)
    /\ UNCHANGED <<root, twin>>
    /\ UNCHANGED TwinRest

twin_chunk ==
    /\ \E id \in DOMAIN dl : DlChunk(id, TwinIo(dl[id].written + 1))
    /\ UNCHANGED <<root, twin>>
    /\ UNCHANGED TwinRest

InitTwin ==
    /\ WrapperEntered("async", 0, 0, 0, {})
    /\ SearchIdle
    /\ root \in Outputs
    /\ dl = <<>>
    /\ fs = <<>>
    /\ log = {}
    /\ LoopStarted
    /\ llm = NoLLM
    /\ meta = NoMeta
    /\ norm = NoNorm
    /\ lg = NoLogger
    /\ byurl = NoByUrl
    /\ vision = NoVision
    /\ \E url \in DownloadUrls, tid \in TweetIds, mk \in {"ok", "OSError"},
          resp \in Responses, op \in {"ok", "OSError"},
          fail_at \in 0..(MaxChunks + 1), fail_kind \in {"ClientPayloadError", "OSError"} :
            twin = [pc |-> "run", url |-> url, tid |-> tid, mk |-> mk, resp |-> resp,
                    op |-> op, fail_at |-> fail_at, fail_kind |-> fail_kind,
                    first |-> NoSnapshot]

NextTwin ==
    \/ download_media_twin
    \/ download_media_async_twin
    \/ twin_response
    \/ twin_chunk

SpecTwin == InitTwin /\ [][NextTwin]_vars

BothEnded == DOMAIN dl = {1, 2} /\ dl[1].pc = "returned" /\ dl[2].pc = "returned"

TweetUrl(site, user, section, digits) ==
    [site |-> site, user |-> user, section |-> section, digits |-> digits]

TweetUrlInputs ==
    {TweetUrl("twitter.com", "elonmusk", "status", "1460062031084761090"),
     TweetUrl("x.com", "i", "status", "42"),
     TweetUrl("x.com", "elonmusk", "photo", ""),
     TweetUrl("example.com", "elonmusk", "status", "42"),
     TweetUrl("twitter.com", "elonmusk", "status", "")}

\* The four patterns, in the order they are tried.
UrlPatterns ==
    <<[site |-> "twitter.com", user |-> "\\w+"], [site |-> "twitter.com", user |-> "i"],
      [site |-> "x.com", user |-> "\\w+"], [site |-> "x.com", user |-> "i"]>>

PatternMatches(pat, url) ==
    /\ url.site = pat.site
    /\ IF pat.user = "i" THEN url.user = "i" ELSE url.user # ""
    /\ url.section = "status"
    /\ url.digits # ""

\* The id, or nothing when no pattern matches (ValueError).
get_tweet_id_from_url(url) ==
    IF \E k \in 1..Len(UrlPatterns) : PatternMatches(UrlPatterns[k], url)
    THEN Some(url.digits) ELSE NoneV

UrlH == [netloc |-> "video.twimg.com", segs |-> <<"vid", "pl.m3u8">>, query |-> ""]
UrlV1 == [netloc |-> "video.twimg.com", segs |-> <<"vid", "low.mp4">>, query |-> ""]
UrlV2 == [netloc |-> "video.twimg.com", segs |-> <<"vid", "high.mp4">>, query |-> ""]

Variant(url, content_type) == [url |-> url, content_type |-> content_type]

\* includes.media of a tweet: a photo with its own URL, a video whose
\* variants are a playlist and two mp4 files, an animation with a playlist
\* only, a media object without any URL and one that is malformed.
ByUrlMedia ==
    {[media_key |-> "p1", url |-> Some(UrlA), malformed |-> FALSE,
      variants |-> <<Variant(Some(UrlV1), "video/mp4")>>],
     [media_key |-> "v1", url |-> NoneV, malformed |-> FALSE,
      variants |-> <<Variant(Some(UrlH), "application/x-mpegURL"),
                     Variant(Some(UrlV1), "video/mp4; codecs=avc1"),
                     Variant(Some(UrlV2), "video/mp4")>>],
     [media_key |-> "g1", url |-> NoneV, malformed |-> FALSE,
      variants |-> <<NoVariant, Variant(Some(UrlH), "application/x-mpegURL")>>],
     [media_key |-> "m3", url |-> NoneV, variants |-> <<NoVariant>>, malformed |-> FALSE],
     [media_key |-> "m4", url |-> NoneV, variants |-> <<>>, malformed |-> TRUE]}

MediaLists == UNION {[1..n -> ByUrlMedia] : n \in 0..MaxMedia}

\* What get_tweet ends in: an error of the API, an error of the transport,
\* or a response; has_data is FALSE when res.data is None.
GetTweetResults ==
    {[kind |-> k, has_data |-> FALSE, media |-> <<>>] : k \in {"PyTwitterError", "ConnectionError"}}
    \cup {[kind |-> "ok", has_data |-> d, media |-> ms] : d \in BOOLEAN, ms \in MediaLists}

ByUrlError == [fn |-> "fetch_tweet_by_url_async", level |-> "error", call |-> 0, about |-> NoUrl]

\* `except PyTwitterError` and `except Exception`: log and return {}.
ByUrlExceptApiOnly(b, e) ==
    IF e = "PyTwitterError" THEN [b EXCEPT !.pc = "done", !.result = EmptyDict, !.err = e]
    ELSE [b EXCEPT !.pc = "raised", !.err = e]
ByUrlExcept(b, e) == [b EXCEPT !.pc = "done", !.result = EmptyDict, !.err = e]

ByUrlRest == <<retry_vars, search_vars, task_vars, loop_vars, llm, meta, norm, twin, lg, vision>>

\* The call up to the request: the id is taken from the URL.
fetch_tweet_by_url_async ==
    /\ byurl.pc = "start"
    /\ LET id == get_tweet_id_from_url(byurl.url)
       IN  IF id = NoneV
           THEN /\ byurl' = ByUrlExcept(byurl, "ValueError")
                /\ log' = log \cup {ByUrlError}
           ELSE /\ byurl' = [byurl EXCEPT !.pc = "request", !.tweet_id = id[1]]
                /\ UNCHANGED log
    /\ UNCHANGED <<root, dl, fs>>
    /\ UNCHANGED ByUrlRest

\* self.api.get_tweet(...)
get_tweet ==
    /\ byurl.pc = "request"
    /\ \E res \in GetTweetResults :
          IF res.kind # "ok"
          THEN /\ byurl' = [ByUrlExcept(byurl, res.kind) EXCEPT !.requests = @ + 1]
               /\ log' = log \cup {ByUrlError}
          ELSE /\ byurl' = [byurl EXCEPT !.pc = "media", !.requests = @ + 1,
                                         !.has_data = res.has_data, !.media = res.media]
               /\ UNCHANGED log
    /\ UNCHANGED <<root, dl, fs>>
    /\ UNCHANGED ByUrlRest

\* The media item being built and the call of its download.
Current == Len(byurl.items) + 1
Awaiting == Current \in DOMAIN dl

\* `media_item = await build_media_item_async(...)` up to its await; mk is
\* the outcome of the download's mkdir.
byurl_media_start ==
    /\ byurl.pc = "media"
    /\ Current <= Len(byurl.media)
    /\ ~Awaiting
    /\ LET media == byurl.media[Current]
           url == SelectDownloadUrl(media)
       IN  IF media.malformed
           THEN /\ byurl' = ByUrlExcept(byurl, "AttributeError")
                /\ log' = log \cup {ByUrlError}
                /\ UNCHANGED <<dl, fs>>
           ELSE IF url = NoneV
           THEN /\ byurl' = [byurl EXCEPT !.items = Append(@, Item(media, NoneV, NoneV))]
                /\ UNCHANGED <<dl, fs, log>>
           ELSE /\ \E mk \in {"ok", "OSError"} :
                      DlStart(Current, "async", url[1], byurl.tweet_id, root, mk)
                /\ byurl' = IF Finished(dl'[Current])
                            THEN [byurl EXCEPT !.items = Append(@, ItemAfterDownload(media, dl'[Current]))]
                            ELSE byurl
    /\ UNCHANGED root
    /\ UNCHANGED ByUrlRest

\* The item is appended when its download has returned.
ByUrlAfterDownload ==
    byurl' = IF Finished(dl'[Current])
             THEN [byurl EXCEPT !.items =
                      Append(@, ItemAfterDownload(byurl.media[Current], dl'[Current]))]
             ELSE byurl

byurl_media_response ==
    /\ byurl.pc = "media"
    /\ Awaiting
    /\ \E resp \in FullResponses, op \in {"ok", "OSError"} : DlResponse(Current, resp, op)
    /\ ByUrlAfterDownload
    /\ UNCHANGED root
    /\ UNCHANGED ByUrlRest

byurl_media_chunk ==
    /\ byurl.pc = "media"
    /\ Awaiting
    /\ \E io \in {"ok", "ClientPayloadError"} : DlChunk(Current, io)
    /\ ByUrlAfterDownload
    /\ UNCHANGED root
    /\ UNCHANGED ByUrlRest

\* The rest of the body: tweet_data is read and the dict compiled.
byurl_return ==
    /\ byurl.pc = "media"
    /\ Len(byurl.items) = Len(byurl.media)
    /\ IF ~byurl.has_data
       THEN /\ byurl' = ByUrlExcept(byurl, "AttributeError")
            /\ log' = log \cup {ByUrlError}
       ELSE /\ byurl' = [byurl EXCEPT !.pc = "done",
                            !.result = [type |-> "dict", keys |-> TweetKeys \cup {"url"},
                                        tweet_id |-> byurl.tweet_id,
                                        media |-> byurl.items, author |-> NoneV]]
            /\ UNCHANGED log
    /\ UNCHANGED <<root, dl, fs>>
    /\ UNCHANGED ByUrlRest

InitByUrl ==
    /\ WrapperEntered("async", 0, 0, 0, {})
    /\ SearchIdle
    /\ root = SearchOutput
    /\ dl = <<>>
    /\ fs = <<>>
    /\ log = {}
    /\ LoopStarted
    /\ llm = NoLLM
    /\ meta = NoMeta
    /\ norm = NoNorm
    /\ twin = NoTwin
    /\ lg = NoLogger
    /\ vision = NoVision
    /\ \E url \in TweetUrlInputs :
          byurl = [pc |-> "start", url |-> url, tweet_id |-> "", requests |-> 0,
                   has_data |-> FALSE, media |-> <<>>, items |-> <<>>,
                   result |-> NoResult, err |-> NoErr.kind]

NextByUrl ==
    \/ fetch_tweet_by_url_async
    \/ get_tweet
    \/ byurl_media_start
    \/ byurl_media_response
    \/ byurl_media_chunk
    \/ byurl_return

SpecByUrl == InitByUrl /\ [][NextByUrl]_vars


(***************************************************************************)
(* Claims about fetch_tweet_by_url_async, checked under SpecByUrl.         *)
(***************************************************************************)
\* The media object has a URL to download from.
WantsDownload(media) ==
    /\ ~media.malformed
    /\ \/ media.url # NoneV
       \/ \E k \in 1..Len(media.variants) : media.variants[k].url # NoneV

\* C22: the media downloads of the record are started together and joined
\* by one gather: the response to one of them is handled only when every
\* download of the record has been started.
C22_AllStartedBeforeAwaited ==
    [][(\E id \in DOMAIN dl : dl[id].pc = "get" /\ dl'[id].pc # "get")
          => \A j \in 1..Len(byurl.media) :
                WantsDownload(byurl.media[j]) => j \in DOMAIN dl]_vars

\* The text of the URL holds no tweet id the patterns can find.
NoIdInUrl ==
    \/ byurl.url.site \notin {"twitter.com", "x.com"}
    \/ byurl.url.section # "status"
    \/ byurl.url.digits = ""

\* C26: fetch_tweet_by_url_async raises nothing: a URL without a tweet id,
\* an error of the API or of the transport and a failure while the media
\* or the dict are built are all logged and answered with {}; and no
\* request is sent for a URL without a tweet id.
C26_NeverRaises ==
    /\ byurl.pc \in {"start", "request", "media", "done"}
    /\ byurl.pc = "done" =>
          IF byurl.err # NoErr.kind
          THEN byurl.result = EmptyDict /\ ByUrlError \in log
          ELSE byurl.result.type = "dict" /\ byurl.result.keys # {}
    /\ NoIdInUrl => byurl.requests = 0 /\ byurl.pc \in {"start", "done"}
    /\ (NoIdInUrl /\ byurl.pc = "done") => byurl.err = "ValueError"

C26_Witness ==
    /\ byurl.pc = "done"
    /\ byurl.err = "AttributeError"
    /\ byurl.result = EmptyDict
    /\ byurl.requests = 1
    /\ 1 \in DOMAIN dl
    /\ dl[1].value # NoneV

\* Variant k of the media object has a URL and an mp4 content type.
Mp4WithUrl(media, k) ==
    media.variants[k].url # NoneV /\ ContainsMp4(media.variants[k].content_type)

\* u is the URL the priority gives: the object's own, else that of the
\* first mp4 variant with a URL, else that of the first variant with a URL.
Chosen(media, u) ==
    LET n == Len(media.variants)
    IN  \/ media.url # NoneV /\ u = media.url
        \/ /\ media.url = NoneV
           /\ \E i \in 1..n : /\ Mp4WithUrl(media, i)
                              /\ u = media.variants[i].url
                              /\ \A k \in 1..(i - 1) : ~Mp4WithUrl(media, k)
        \/ /\ media.url = NoneV
           /\ \A i \in 1..n : ~Mp4WithUrl(media, i)
           /\ \E i \in 1..n : /\ media.variants[i].url # NoneV
                              /\ u = media.variants[i].url
                              /\ \A k \in 1..(i - 1) : media.variants[k].url = NoneV

RECURSIVE SumSecs(_)
SumSecs(ss) == IF ss = <<>> THEN 0 ELSE ss[1].secs + SumSecs(Tail(ss))

\* 1 + b + ... + b^(n-1)
RECURSIVE GeometricSum(_, _)
GeometricSum(b, n) == IF n <= 0 THEN 0 ELSE Pow(b, n - 1) + GeometricSum(b, n - 1)

\* C23: an execution that succeeds is the last: its value is what the
\* caller gets, with no error, and nothing is executed or waited after it;
\* and a call whose max_retries executions all fail has waited
\* max_retries - 1 times, delay * (1 + backoff + ... + backoff^(max_retries-2))
\* seconds in all, with no wait after the last failure.
C23_SuccessEndsLoop ==
    /\ \A k \in 1..Len(execs) :
          execs[k].status = "returned" =>
              /\ k = Len(execs)
              /\ Len(sleeps) = k - 1
              /\ wpc \in {"call", "done"}
              /\ wpc = "done" => outcome = Returned(execs[k].value)
    /\ (/\ wpc = "done"
        /\ max_retries >= 1
        /\ Len(execs) = max_retries
        /\ \A k \in 1..Len(execs) : execs[k].status = "raised")
          => /\ Len(sleeps) = max_retries - 1
             /\ SumSecs(sleeps) = delay * GeometricSum(backoff, max_retries - 1)
             /\ outcome.status = "raised"

C23_Witness ==
    /\ wpc = "done"
    /\ Len(execs) = 3
    /\ execs[1].status = "raised" /\ execs[2].status = "raised"
    /\ execs[3] = Returned("value")
    /\ outcome = Returned("value")
    /\ delay = 60 /\ backoff = 2 /\ SumSecs(sleeps) = 180

\* The execution at which a call stops: it returned, or raised an error the
\* wrapper does not catch, or was the last one allowed.
StopsAt(k) ==
    \/ execs[k].status = "returned"
    \/ execs[k].status = "raised" /\ ~Matches(execs[k].err, exceptions)
    \/ k = max_retries

\* C28: what a finished call has done is a function of the parameters and
\* of the outcomes of the wrapped operation alone, the same for
\* retry_on_exception and retry_on_exception_async: the executions end at
\* the first one that returns, raises an uncaught error or is the
\* max_retries-th, the delays requested are delay * backoff^(k-1) after each
\* execution but the last, and the caller gets what the last execution gave.
C28_StyleIndependent ==
    wpc = "done" =>
        LET n == Len(execs)
        IN  /\ n <= max_retries
            /\ n = 0 <=> max_retries = 0
            /\ \A k \in 1..n : StopsAt(k) <=> k = n
            /\ Len(sleeps) = (IF n = 0 THEN 0 ELSE n - 1)
            /\ \A k \in 1..Len(sleeps) : sleeps[k].secs = delay * Pow(backoff, k - 1)
            /\ outcome = (IF n = 0 THEN Returned(None)
                          ELSE IF execs[n].status = "returned" THEN Returned(execs[n].value)
                          ELSE Raised(execs[n].err))

C28_Witness ==
    /\ wpc = "done"
    /\ style = "async"
    /\ max_retries = 3
    /\ Len(execs) = 3
    /\ Len(sleeps) = 2 /\ sleeps[2].fn = "asyncio.sleep"
    /\ outcome = Raised(execs[3].err)

\* C29: with max_retries = 0 the wrapped operation is never executed and
\* the wrapper returns None; with max_retries >= 1 what the wrapper returns
\* is what an execution returned, and otherwise it raises what an execution
\* raised.
C29_NoneOnlyWithoutAttempts ==
    /\ max_retries = 0 =>
          /\ execs = <<>>
          /\ sleeps = <<>>
          /\ wpc = "done" => outcome = Returned(None)
    /\ (max_retries >= 1 /\ wpc = "done") =>
          /\ Len(execs) >= 1
          /\ \/ execs[Len(execs)].status = "returned"
                /\ outcome = Returned(execs[Len(execs)].value)
             \/ execs[Len(execs)].status = "raised"
                /\ outcome = Raised(execs[Len(execs)].err)

C29_Witness ==
    /\ max_retries = 0
    /\ wpc = "done"
    /\ execs = <<>>
    /\ outcome = Returned(None)


(***************************************************************************)
(* SpecVision: VisionPipeline._analyze_video (pipeline.py) on one video,   *)
(* from cv2.VideoCapture to the result with its frames_analyzed.           *)
(***************************************************************************)
MinOf(a, b) == IF a < b THEN a ELSE b

\* A selection without the short way out for short videos.
GetFrameIndicesNoShortcut(total_frames, max_frames) ==
    LET step == total_frames \div max_frames
    IN  [i \in 1..max_frames |-> MinOf((i - 1) * step, total_frames - 1)]

\* _get_frame_indices: list(range(total_frames)) for a short video, else
\* max_frames multiples of total_frames // max_frames, none above the last
\* frame.  Positions count from 1 here, frames from 0 as in the code.
GetFrameIndices(total_frames, max_frames) ==
    IF total_frames <= max_frames
    THEN [i \in 1..total_frames |-> i - 1]
    ELSE LET step == total_frames \div max_frames
         IN  [i \in 1..max_frames |-> MinOf((i - 1) * step, total_frames - 1)]

VisionRest == <<retry_vars, rest_vars, loop_vars, llm, meta, norm, twin, lg, byurl>>

\* cv2.VideoCapture and cap.isOpened(); an opened video gives its frame
\* count and the indices are chosen.
analyze_video_open ==
    /\ vision.pc = "open"
    /\ \E opened \in BOOLEAN :
          IF ~opened
          THEN vision' = [vision EXCEPT !.pc = "done", !.error = TRUE]
          ELSE vision' = [vision EXCEPT !.pc = "frames",
                             !.frame_indices = GetFrameIndices(vision.total_frames,
                                                               vision.max_frames)]
    /\ UNCHANGED VisionRest

\* One turn of the loop: the frame is read and analysed, or the read fails
\* and the frame is skipped.
analyze_video_frame ==
    /\ vision.pc = "frames"
    /\ vision.i < Len(vision.frame_indices)
    /\ \E ret \in BOOLEAN :
          vision' = [vision EXCEPT !.i = @ + 1,
                        !.frame_results = IF ret THEN Append(@, vision.frame_indices[vision.i + 1])
                                          ELSE @]
    /\ UNCHANGED VisionRest

\* cap.release() and the combined result
analyze_video_return ==
    /\ vision.pc = "frames"
    /\ vision.i = Len(vision.frame_indices)
    /\ vision' = [vision EXCEPT !.pc = "done", !.frames_analyzed = Len(vision.frame_results)]
    /\ UNCHANGED VisionRest

InitVision ==
    /\ WrapperEntered("async", 0, 0, 0, {})
    /\ SearchIdle
    /\ DownloadIdle
    /\ LoopStarted
    /\ llm = NoLLM
    /\ meta = NoMeta
    /\ norm = NoNorm
    /\ twin = NoTwin
    /\ lg = NoLogger
    /\ byurl = NoByUrl
    /\ \E total \in 0..MaxTotalFrames, mf \in 1..MaxMaxFrames :
          vision = [pc |-> "open", total_frames |-> total, max_frames |-> mf,
                    frame_indices |-> <<>>, i |-> 0, frame_results |-> <<>>,
                    frames_analyzed |-> 0, error |-> FALSE]

NextVision ==
    \/ analyze_video_open
    \/ analyze_video_frame
    \/ analyze_video_return

SpecVision == InitVision /\ [][NextVision]_vars

\* C30: for total_frames >= 0 and max_frames >= 1 the indices chosen are
\* min(total_frames, max_frames) in number, strictly increasing, within
\* 0..total_frames-1 and start at 0; so at most max_frames frames are
\* analysed and frames_analyzed is at most the number of indices.
C30_FrameIndices ==
    vision.pc \in {"frames", "done"} /\ ~vision.error =>
        LET idx == vision.frame_indices
            n == Len(idx)
        IN  /\ n = (IF vision.total_frames < vision.max_frames
                    THEN vision.total_frames ELSE vision.max_frames)
            /\ \A k \in 1..n : idx[k] >= 0 /\ idx[k] <= vision.total_frames - 1
            /\ \A k \in 1..(n - 1) : idx[k] < idx[k + 1]
            /\ vision.total_frames > 0 => idx[1] = 0
            /\ Len(vision.frame_results) <= vision.i
            /\ vision.i <= n
            /\ n <= vision.max_frames
            /\ vision.pc = "done" => /\ vision.frames_analyzed = Len(vision.frame_results)
                                     /\ vision.frames_analyzed <= n

C30_Witness ==
    /\ vision.pc = "done"
    /\ vision.total_frames = MaxTotalFrames
    /\ vision.max_frames = 3
    /\ Len(vision.frame_indices) = 3
    /\ vision.frame_indices[3] > vision.frame_indices[2]
    /\ vision.frames_analyzed = 2



(***************************************************************************)
(* SpecLogger: the modules of the package construct Logger() one after the *)
(* other at import (logger.py).  An object is the function from its        *)
(* attribute names to their values; the class keeps one slot, __instance.  *)
(***************************************************************************)
\* Modules with a module-level `logger = Logger()`.
LoggerModules == {"helpers", "twitter", "pipeline"}

\* What the environment holds under LOG_LEVEL and LOG_FILE when the
\* configuration step reads it (None: not set).
LogLevelEnv == {None, "10", "40", "DEBUG"}
LogFileEnv == {None, "", "app.log"}

\* logging.INFO, the default of config.get("LOG_LEVEL", logging.INFO).
LoggingINFO == 20

\* int(x) of the configuration step: the default is an int already, a string
\* of digits is its number, any other string raises ValueError.
IntRaises(x) == x \notin {None, "10", "40"}
IntOfLogLevel(x) ==
    IF x = None THEN LoggingINFO
    ELSE IF x = "10" THEN 10
    ELSE IF x = "40" THEN 40
    ELSE 0

\* str(Path("output") / log_file_name)
LogPath(log_file_name) ==
    IF log_file_name = "app.log" THEN "output/app.log" ELSE "output"

\* `__instance = None`: the class slot before the first construction.
NoInstance == 0

\* A guard that never finds the attribute.
HasInitializedNever(obj) == FALSE

\* `hasattr(self, "_initialized")`
HasInitialized(obj) == "_initialized" \in DOMAIN obj

\* The object with one attribute assigned.
SetAttr(obj, name, value) ==
    [a \in DOMAIN obj \cup {name} |-> IF a = name THEN value ELSE obj[a]]

\* object.__new__(cls): an object without attributes.
NewObject == [a \in {} |-> None]

LoggerRest == <<retry_vars, rest_vars, loop_vars, llm, meta, norm, twin, byurl, vision>>

\* Logger.__new__: `if cls.__instance is None: cls.__instance =
\* super().__new__(cls)`, `return cls.__instance`.  by is the importing module.
Logger_new ==
    /\ lg.pc = "idle"
    /\ lg.calls < MaxLoggers
    /\ \E by \in LoggerModules :
          LET fresh == Len(lg.objs) + 1
              made == lg.instance = NoInstance
          IN  lg' = [lg EXCEPT !.pc = "init",
                               !.by = by,
                               !.calls = @ + 1,
                               !.instance = IF made THEN fresh ELSE @,
                               !.self = IF made THEN fresh ELSE lg.instance,
                               !.objs = IF made THEN Append(@, NewObject) ELSE @]
    /\ UNCHANGED LoggerRest

\* Logger.__init__ up to the flag: `if hasattr(self, "_initialized"): return`,
\* `self._initialized = True`.
Logger_init ==
    /\ lg.pc = "init"
    /\ IF HasInitialized(lg.objs[lg.self])
       THEN lg' = [lg EXCEPT !.pc = "idle",
                             !.handed = Append(@, [by |-> lg.by, obj |-> lg.self])]
       ELSE lg' = [lg EXCEPT !.pc = "config",
                             !.objs[lg.self] = SetAttr(@, "_initialized", TRUE)]
    /\ UNCHANGED LoggerRest

\* The configuration step: `self.log_level = int(config.get("LOG_LEVEL",
\* logging.INFO))`, `self.log_file = None`, and with a non-empty LOG_FILE the
\* directory is made and log_file set.  int() and mkdir can raise; the
\* construction then ends in that exception and hands nothing out.
Logger_config ==
    /\ lg.pc = "config"
    /\ \E level \in LogLevelEnv, log_file_name \in LogFileEnv, mkdir_ok \in BOOLEAN :
          LET n == IntOfLogLevel(level)
              o1 == SetAttr(lg.objs[lg.self], "log_level", n)
              o2 == SetAttr(o1, "log_file", None)
              o3 == SetAttr(o2, "log_file", LogPath(log_file_name))
              wants_file == log_file_name \notin {None, ""}
              ran == [lg EXCEPT !.pc = "idle", !.configs = @ + 1]
          IN  lg' = IF IntRaises(level)
                    THEN [ran EXCEPT !.raised = Append(@, "ValueError")]
                    ELSE IF ~wants_file
                    THEN [ran EXCEPT !.objs[lg.self] = o2,
                                     !.handed = Append(@, [by |-> lg.by, obj |-> lg.self])]
                    ELSE IF ~mkdir_ok
                    THEN [ran EXCEPT !.objs[lg.self] = o2,
                                     !.mkdirs = @ + 1,
                                     !.raised = Append(@, "OSError")]
                    ELSE [ran EXCEPT !.objs[lg.self] = o3,
                                     !.mkdirs = @ + 1,
                                     !.handed = Append(@, [by |-> lg.by, obj |-> lg.self])]
    /\ UNCHANGED LoggerRest

InitLogger ==
    /\ WrapperEntered("async", 0, 0, 0, {})
    /\ SearchIdle
    /\ DownloadIdle
    /\ LoopStarted
    /\ llm = NoLLM
    /\ meta = NoMeta
    /\ norm = NoNorm
    /\ twin = NoTwin
    /\ byurl = NoByUrl
    /\ vision = NoVision
    /\ lg = [pc |-> "idle", by |-> "", calls |-> 0, instance |-> NoInstance, self |-> NoInstance,
             objs |-> <<>>, handed |-> <<>>, raised |-> <<>>,
             configs |-> 0, mkdirs |-> 0]

NextLogger ==
    \/ Logger_new
    \/ Logger_init
    \/ Logger_config

SpecLogger == InitLogger /\ [][NextLogger]_vars

\* Two objects agree on an attribute: both lack it or both hold one value.
SameAttr(a, b, name) ==
    /\ name \in DOMAIN a <=> name \in DOMAIN b
    /\ name \in DOMAIN a => a[name] = b[name]

\* One object for every caller, configured at most once.
OneLoggerConfiguredOnce ==
    /\ Len(lg.objs) <= 1
    /\ \A i \in 1..Len(lg.handed) : lg.handed[i].obj = lg.instance
    /\ lg.configs <= 1
    /\ lg.mkdirs <= 1
    /\ lg.configs = 1 => lg.calls >= 1

\* A step of a construction after the first leaves the attributes alone.
LaterConstructionsKeepConfig ==
    (lg.calls > 1 \/ (lg.calls = 1 /\ lg.pc = "idle")) =>
        /\ lg'.configs = lg.configs
        /\ lg'.mkdirs = lg.mkdirs
        /\ \A k \in 1..Len(lg.objs) :
              /\ SameAttr(lg'.objs[k], lg.objs[k], "log_level")
              /\ SameAttr(lg'.objs[k], lg.objs[k], "log_file")

\* C25: the logger is a singleton that is initialised once: every Logger()
\* call, from any module and in any order, returns the same instance; the
\* configuration step (LOG_LEVEL, LOG_FILE, the log directory) runs on the
\* first construction only; later constructions leave log_level and
\* log_file as they were.
C25_SingletonInitializedOnce ==
    []OneLoggerConfiguredOnce /\ [][LaterConstructionsKeepConfig]_vars

C25_Witness ==
    /\ lg.pc = "idle"
    /\ lg.calls = MaxLoggers
    /\ Len(lg.handed) = MaxLoggers
    /\ lg.handed[1].by # lg.handed[2].by
    /\ lg.configs = 1
    /\ lg.objs[1]["log_level"] = 10
    /\ lg.objs[1]["log_file"] = LogPath("app.log")

=============================================================================
